---- MODULE Spec2Model ----
(***************************************************************************)
(* The batch token workflow of four.meme-bot: BatchRunner (batch_runner.py)*)
(* driving FourMemeBot (core/four_meme_bot.py) and BlockchainManager       *)
(* (core/blockchain_utils.py).                                             *)
(*                                                                         *)
(* Amounts of native currency are counted in units of 0.001 BNB, sell      *)
(* percentages in whole percent.  An optional Python value is a sequence:  *)
(* None is <<>> and a present value x is <<x>>.  An error text is the      *)
(* sequence of its message parts, outermost first.                         *)
(***************************************************************************)
EXTENDS Integers, Sequences, FiniteSets, TLC

None == <<>>
Some(x) == <<x>>

\* ---------------------------------------------------------------- bounds
\* longest wallet file the single-wallet specification reads
MaxLines == 1
\* longest wallet file the batch specification reads
MaxWallets == 2
\* largest image pool
MaxImages == 1

\* ------------------------------------------------------ program constants
\* the 0.01 BNB floor of process_wallet, in units of 0.001 BNB
MinBalance == 10
\* sell percentage used when the field is missing, unparsable or out of range
DefaultSellPercentage == 100
\* purchase amount used when the field is missing or unparsable
DefaultPurchaseAmount == 0
\* upper end of the sell percentage range
MaxPercentage == 100
\* max_retries of APIUtils.make_request when the caller gives none
DefaultMaxRetries == 3

\* ------------------------------------------------------ the wallet file
\* A field of a line: blank, unparsable text, or a number.
Field(t, v) == [t |-> t, v |-> v]

\* A line: kind is "blank", "comment" or "data"; a data line has nparts
\* ';'-separated parts, the first two being address and private key.
\* key_ok says that an address can be derived from the key, key_address is
\* that address.
Line(kind, nparts, address, key_ok, purchase, sell) ==
  [kind |-> kind, nparts |-> nparts, address |-> address, key_ok |-> key_ok,
   key_address |-> address, purchase |-> purchase, sell |-> sell]

\* batch_runner.py:117-120: a line whose key belongs to another address
Mismatched(line) == [line EXCEPT !.key_address = "0xOther"]

\* batch_runner.py:125-131
ParsePurchaseAmount(line) ==
  IF line.nparts > 2 /\ line.purchase.t # "blank"
  THEN IF line.purchase.t = "num" THEN line.purchase.v ELSE DefaultPurchaseAmount
  ELSE DefaultPurchaseAmount

\* the range test without its upper end
SellOutOfRange_NoUpperEnd(p) == p < 0

\* batch_runner.py:138
SellOutOfRange(p) == p < 0 \/ p > MaxPercentage

\* batch_runner.py:133-142
ParseSellPercentage(line) ==
  IF line.nparts > 3 /\ line.sell.t # "blank"
  THEN IF line.sell.t = "num"
       THEN IF SellOutOfRange(line.sell.v) THEN DefaultSellPercentage
            ELSE line.sell.v
       ELSE DefaultSellPercentage
  ELSE DefaultSellPercentage

\* a line whose key belongs to another address yields no record either
LineSkipped_MismatchSkipped(line) ==
  \/ line.kind # "data"
  \/ line.nparts < 2
  \/ ~line.key_ok
  \/ line.key_address # line.address

\* batch_runner.py:99-123: the lines that yield no record
LineSkipped(line) ==
  \/ line.kind # "data"
  \/ line.nparts < 2
  \/ ~line.key_ok

\* batch_runner.py:144-150
WalletInfo(line, line_num) ==
  [address |-> line.address,
   purchase_amount |-> ParsePurchaseAmount(line),
   sell_percentage |-> ParseSellPercentage(line),
   line_num |-> line_num]

RECURSIVE LoadFrom(_, _)
LoadFrom(ls, line_num) ==
  IF line_num > Len(ls) THEN <<>>
  ELSE IF LineSkipped(ls[line_num]) THEN LoadFrom(ls, line_num + 1)
  ELSE <<WalletInfo(ls[line_num], line_num)>> \o LoadFrom(ls, line_num + 1)

\* batch_runner.py:88-167
load_wallets_from_file(ls) == LoadFrom(ls, 1)

\* ------------------------------------------------------------- the state
VARIABLES
  lines,               \* the wallet file, one entry per line
  wallets,             \* run_batch: the loaded wallet records
  i,                   \* run_batch: index of the wallet being processed
  pc,                  \* position of the single thread of control
  result,              \* process_wallet: the result being built / returned
  results,             \* BatchRunner.results
  success_count,       \* BatchRunner.success_count
  failed_count,        \* BatchRunner.failed_count
  available_images,    \* BatchRunner.available_images
  used_images,         \* BatchRunner.used_images
  blockchain_manager,  \* FourMemeBot.blockchain_manager is set
  access_token,        \* FourMemeBot.access_token
  loc,                 \* locals of the running workflow
  calls,               \* external calls made by the current workflow, in order
  chain                \* the node: transaction counts and transactions received

vars == <<lines, wallets, i, pc, result, results, success_count, failed_count,
          available_images, used_images, blockchain_manager, access_token,
          loc, calls, chain>>

\* An external call and what the outside answered: op is "rpc", "http",
\* "file", "send" (build, sign and broadcast of a transaction), "wait" (the
\* receipt wait), "parse" (the receipt's event log) or "sleep".
Call(op, kind, out) == [op |-> op, kind |-> kind, out |-> out]

\* the answer of the remote API as the log records it
HttpOut(resp) ==
  IF ~resp.http_ok THEN "http_error"
  ELSE IF resp.code # 0 THEN "rejected" ELSE "ok"

\* batch_runner.py:241-254
NewResult(wallet_num, address) ==
  [wallet_num |-> wallet_num, address |-> address, success |-> FALSE,
   token_address |-> None, image_used |-> None, create_tx |-> None,
   buy_tx |-> None, sell_tx |-> None, error |-> None,
   steps_completed |-> <<>>]

\* address is the account the bot signs for, create_arg the authorization
\* (createArg and signature) of api_result, txs the transactions the run
\* handed to the node and tx_results the results its transaction operations
\* returned, both in order
NoLocals ==
  [address |-> "0xA", create_arg |-> None, txs |-> <<>>, tx_results |-> <<>>,
   selected_image |-> None, imgUrl |-> None, token_address |-> None,
   wallet_balance |-> None, purchase_amount |-> 0, sell_percentage |-> 0,
   balance |-> 0,
   sell_amount |-> 0, sell_result |-> [success |-> FALSE, tx_hash |-> None,
                                       error |-> None]]

\* ------------------------------------------- what the outside can answer
\* An HTTP reply: transport/HTTP status outcome and the body's code field.
Responses ==
  {[http_ok |-> TRUE, code |-> 0], [http_ok |-> TRUE, code |-> 1],
   [http_ok |-> FALSE, code |-> 0]}
\* native balance readings (None: the RPC read failed)
BalanceReadings == {None, Some(1), Some(10), Some(20)}
\* build/sign/broadcast of a transaction: an exception before the transaction
\* is built, a broadcast error, or the hash of the broadcast transaction
SendOutcomes == {"error", "send_error", "sent"}
\* the receipt wait
WaitOutcomes == {"timeout", "reverted", "confirmed"}
\* the token's on-chain status, named after the contract constant it equals
StatusCodes == {"TRADING", "COMPLETED", "HALT", "ADDING_LIQUIDITY", "OTHER"}
\* token balance readings in whole tokens (None: the read failed)
TokenBalanceReadings == {None, Some(0), Some(100), Some(1000)}

\* ------------------------------------------------------ code conditions
\* the floor taken as 0.001 instead of 0.01
InsufficientBalance_WrongFloor(balance) == balance < 1

\* batch_runner.py:266
InsufficientBalance(balance) == balance < MinBalance

\* the code field is not looked at
CodeIsSuccess_Unchecked(code) == TRUE

\* four_meme_bot.py:83, 154, 199, 290: str(data.get("code")) == "0"
CodeIsSuccess(code) == code = 0

\* response.raise_for_status() followed by the code test
ResponseOk(resp) == resp.http_ok /\ CodeIsSuccess(resp.code)

\* the buy guarded by >= instead of >
ShouldBuyOnChain_NonNegative(purchase_amount) == purchase_amount >= 0

\* blockchain_utils.py:223
ShouldBuyOnChain(purchase_amount) == purchase_amount > 0

\* batch_runner.py:303
ShouldBuy(purchase_amount) == purchase_amount > 0

\* batch_runner.py:304: 'purchase_tx' in create_result
BoughtAtCreation(create_result) == "purchase_tx" \in DOMAIN create_result

\* batch_runner.py:328
ShouldSell(sell_percentage) == sell_percentage > 0

\* the percentage test without its upper end
InvalidPercentage_NoUpperEnd(sell_percentage) == sell_percentage <= 0

\* the percentage test with the upper end excluded
InvalidPercentage_Exclusive(sell_percentage) ==
  sell_percentage <= 0 \/ sell_percentage >= MaxPercentage

\* blockchain_utils.py:778
InvalidPercentage(sell_percentage) ==
  sell_percentage <= 0 \/ sell_percentage > MaxPercentage

\* blockchain_utils.py:431-455
parse_token_address_from_receipt(has_event) ==
  IF has_event THEN Some("0xtoken") ELSE None

\* four_meme_bot.py:425-442
get_wallet_balance(manager, reading) == IF manager THEN reading ELSE None

\* every status but HALT taken as tradable
CanTrade_NotHalted(status_code) == status_code # "HALT"

\* blockchain_utils.py:590-605
CanTrade(status_code) == status_code = "TRADING"

\* the receipt is taken as good whenever one arrives
ReceiptOk_StatusUnchecked(out) == out # "timeout"

\* blockchain_utils.py:417-423: a receipt arrived within the bound and its
\* status flag is 1
ReceiptOk(out) == out = "confirmed"

\* ------------------------------------------------------------- the node
\* the accounts a wallet file may name
Addresses == {"0xA", "0xB"}

\* For each account the node holds the number of its mined transactions
\* (the 'latest' transaction count), the first nonce free of mined and
\* pending ones (the 'pending' count) and the nonces of the transactions it
\* accepted, in order.
NoTransactions ==
  [mined |-> [a \in Addresses |-> 0], next |-> [a \in Addresses |-> 0],
   accepted |-> [a \in Addresses |-> <<>>]]

\* pending transactions of the account get mined up to count m
Mine(node, address, m) == [node EXCEPT !.mined[address] = m]

\* blockchain_utils.py:277 (no block given: 'latest'), 354, 686, 886
NonceBlock(kind) == IF kind = "create" THEN "latest" ELSE "pending"

\* web3.eth.get_transaction_count as called at blockchain_utils.py:277,
\* 354, 686, 886
get_transaction_count(node, address, block) ==
  IF block = "pending" THEN node.next[address] ELSE node.mined[address]

\* the creation carries the purchase amount
CreateValue_Purchase == loc.purchase_amount

\* blockchain_utils.py:297
CreateValue == 0

\* blockchain_utils.py:351, 372
BuyValue(purchase_amount) == purchase_amount

\* four_meme_bot.py:290-296: the authorization the remote API issues in
\* answer to the k-th call of the workflow run of wallet number run; no two
\* requests are answered with the same one
CreateArg(run, k) == Some(<<run, k>>)

\* every run sends the authorization of the first run
CreateArgSent_FirstRun(l) ==
  IF l.create_arg = None THEN None ELSE CreateArg(1, l.create_arg[1][2])

\* four_meme_bot.py:363-370, 419-423 and blockchain_utils.py:209, 271-272,
\* 290-292: the arguments of createToken are those of api_result
CreateArgSent(l) == l.create_arg

\* blockchain_utils.py:276-298, 353-373, 685-704, 885-903: the transaction
\* the running bot builds on what the node answers; accepted is set when it
\* is handed to the node
Transaction(node, kind, value, token) ==
  [from |-> loc.address, kind |-> kind,
   nonce |-> get_transaction_count(node, loc.address, NonceBlock(kind)),
   value |-> value, token |-> token,
   create_arg |-> IF kind = "create" THEN CreateArgSent(loc) ELSE None,
   accepted |-> FALSE]

\* web3.eth.send_raw_transaction (blockchain_utils.py:306, 381, 712, 911):
\* the node after it answered out; on "error" the operation raised before
\* a transaction was built
send_raw_transaction(node, tx, out) ==
  IF out # "sent" THEN node
  ELSE [node EXCEPT
          !.accepted[tx.from] = Append(@, tx.nonce),
          !.next[tx.from] = IF tx.nonce = @ THEN @ + 1 ELSE @]

\* the locals after tx was signed and handed to the node
Handed(l, tx, out) ==
  IF out = "error" THEN l
  ELSE [l EXCEPT !.txs = Append(@, [tx EXCEPT !.accepted = (out = "sent")])]

\* web3.eth.wait_for_transaction_receipt (blockchain_utils.py:417): a
\* receipt, good or reverted, means the transaction sent last was mined
Receipt(node, out) ==
  IF out = "timeout" THEN node
  ELSE LET tx == loc.txs[Len(loc.txs)]
           count == tx.nonce + 1
       IN [node EXCEPT
             !.mined[tx.from] = IF count > @ THEN count ELSE @,
             !.next[tx.from] = IF count > @ THEN count ELSE @]

\* ------------------------------------------- process_wallet, as a function
\* the except branch does not record the error
Raised_ErrorDropped(res, err) == [pc |-> "returned", result |-> res]

\* batch_runner.py:347-350: the except branch
Raised(res, err) ==
  [pc |-> "returned", result |-> [res EXCEPT !.error = err]]

\* batch_runner.py:343-345
Completed(res) ==
  [pc |-> "returned", result |-> [res EXCEPT !.success = TRUE]]

\* batch_runner.py:327-334: the sell step is entered or skipped
AfterSettle(res, w) ==
  IF ShouldSell(w.sell_percentage)
  THEN [pc |-> "sell_token", result |-> res]
  ELSE Completed(res)

\* batch_runner.py:322-325
AfterBuy(res, w) ==
  IF res.buy_tx # None
  THEN [pc |-> "settle", result |-> res]
  ELSE AfterSettle(res, w)

\* the buy step is recorded whether or not the buy succeeded
AfterWalletBuy_StepOnFailure(res, w, buy_result) ==
  IF buy_result.success
  THEN AfterBuy([res EXCEPT !.buy_tx = buy_result.tx_hash,
                            !.steps_completed = Append(@, "token_bought")], w)
  ELSE AfterBuy([res EXCEPT !.steps_completed = Append(@, "token_bought")], w)

\* batch_runner.py:311-316: the outcome of process_wallet's own buy
AfterWalletBuy(res, w, buy_result) ==
  IF buy_result.success
  THEN AfterBuy([res EXCEPT !.buy_tx = buy_result.tx_hash,
                            !.steps_completed = Append(@, "token_bought")], w)
  ELSE AfterBuy(res, w)

\* batch_runner.py:290-320: create_result is what create_token_complete returned
AfterCreate(res, w, image, create_result) ==
  IF ~create_result.success
  THEN Raised(res, <<"token_creation_failed">> \o create_result.error)
  ELSE LET r1 == [res EXCEPT !.token_address = create_result.token_address,
                             !.image_used =
                               IF image # None THEN image ELSE Some("None"),
                             !.create_tx = create_result.tx_hash,
                             !.steps_completed = Append(@, "token_created")]
       IN IF ShouldBuy(w.purchase_amount)
          THEN IF ~BoughtAtCreation(create_result)
               THEN [pc |-> "buy_send", result |-> r1]
               ELSE AfterBuy([r1 EXCEPT !.buy_tx = create_result.purchase_tx,
                                        !.steps_completed = Append(@, "token_bought")], w)
          ELSE AfterBuy(r1, w)

\* batch_runner.py:336-341
AfterSell(res, sell_result) ==
  IF sell_result.success
  THEN Completed([res EXCEPT !.sell_tx = sell_result.tx_hash,
                             !.steps_completed = Append(@, "token_sold")])
  ELSE Completed(res)

\* four_meme_bot.py:322-398: what create_token_complete returns
CreateFailure(err) == [success |-> FALSE, error |-> err]

\* four_meme_bot.py:373-378
CreateSuccess(blockchain_result, purchase_amount) ==
  [success |-> TRUE, error |-> None,
   token_address |-> blockchain_result.token_address,
   tx_hash |-> blockchain_result.tx_hash,
   purchase_amount |-> purchase_amount]

\* four_meme_bot.py:373-385: the merge of the blockchain result
MergeBlockchainResult(blockchain_result, purchase_amount) ==
  IF blockchain_result.success
  THEN CreateSuccess(blockchain_result, purchase_amount)
  ELSE CreateFailure(<<"deploy_failed">> \o blockchain_result.error)

\* blockchain_utils.py:326-331, 397-402, 728-733, 927-932
TxFailure(err) == [success |-> FALSE, error |-> err]

\* blockchain_utils.py:317-324
CreateOnlySuccess(token_address) ==
  [success |-> TRUE, tx_hash |-> Some("0xcreate"), token_address |-> token_address]

\* the merged result is a success whatever the buy returned
CreateAndBuyResult_BuyFailureIgnored(token_address, buy_result) ==
  [success |-> TRUE, tx_hash |-> Some("0xcreate"),
   buy_tx_hash |-> IF buy_result.success THEN buy_result.tx_hash ELSE None,
   token_address |-> token_address]

\* blockchain_utils.py:228-246: the merged result of creation and buy
CreateAndBuyResult(token_address, buy_result) ==
  IF buy_result.success
  THEN [success |-> TRUE, tx_hash |-> Some("0xcreate"),
        buy_tx_hash |-> buy_result.tx_hash, token_address |-> token_address]
  ELSE [success |-> FALSE, tx_hash |-> Some("0xcreate"),
        buy_tx_hash |-> None, token_address |-> token_address,
        error |-> <<"created_but_buy_failed">> \o buy_result.error]

\* blockchain_utils.py:389-395
BuySuccess == [success |-> TRUE, tx_hash |-> Some("0xbuy")]

\* blockchain_utils.py:919-925
ApproveSuccess == [success |-> TRUE, tx_hash |-> Some("0xapprove")]

\* blockchain_utils.py:720-726
SellSuccess == [success |-> TRUE, tx_hash |-> Some("0xsell")]

\* the locals after a transaction operation returned tx_result
Returns(l, kind, tx_result) ==
  [l EXCEPT !.tx_results =
     Append(@, [kind |-> kind, success |-> tx_result.success,
                error |-> IF tx_result.success THEN None
                          ELSE tx_result.error])]

\* the step to `next`: position, result and the two counters of
\* batch_runner.py:344, 349
Goto(next) ==
  /\ pc' = next.pc
  /\ result' = next.result
  /\ success_count' =
       IF next.pc = "returned" /\ next.result.success
       THEN success_count + 1 ELSE success_count
  /\ failed_count' =
       IF next.pc = "returned" /\ ~next.result.success
       THEN failed_count + 1 ELSE failed_count

Stay(next_pc) == Goto([pc |-> next_pc, result |-> result])

Log(c) == calls' = Append(calls, c)

batch == <<lines, wallets, i, results, available_images, used_images>>

\* ---------------------------------------------------- the image pool
\* batch_runner.py:73-74
UsedAfterReset(avail, used) ==
  IF Cardinality(used) >= Cardinality(avail) THEN {} ELSE used

\* any image of the pool may be chosen
AvailableUnused_Any(avail, used) == avail

\* batch_runner.py:78-80
AvailableUnused(avail, used) ==
  LET unused == avail \ UsedAfterReset(avail, used)
  IN IF unused = {} THEN avail ELSE unused

\* ------------------------------------------------------------ run_batch
\* batch_runner.py:358-364
LoadWallets ==
  /\ pc = "load"
  /\ wallets' = load_wallets_from_file(lines)
  /\ pc' = IF wallets' = <<>> THEN "done" ELSE "wallet"
  /\ UNCHANGED <<lines, i, result, results, success_count, failed_count,
                 available_images, used_images, blockchain_manager,
                 access_token, loc, calls, chain>>

\* batch_runner.py:237-281 with four_meme_bot.py:32-61, 425-442: the bot is
\* built, the balance is read and checked, the token config and the image
\* are chosen
StartWallet ==
  /\ pc = "wallet"
  /\ \E manager \in BOOLEAN, reading \in BalanceReadings :
       LET w == wallets[i]
           fresh == NewResult(i, w.address)
           balance == get_wallet_balance(manager, reading)
           args == [NoLocals EXCEPT !.address = w.address,
                                    !.purchase_amount = w.purchase_amount,
                                    !.sell_percentage = w.sell_percentage,
                                    !.wallet_balance = balance]
       IN /\ ~manager => reading = None
          /\ blockchain_manager' = manager
          /\ access_token' = None
          /\ calls' = IF manager
                      THEN <<Call("rpc", "connect", "ok"),
                             Call("rpc", "get_balance",
                                  IF reading = None THEN "error" ELSE "ok")>>
                      ELSE <<Call("rpc", "connect", "error")>>
          /\ IF balance = None
             THEN /\ Goto(Raised(fresh, <<"TypeError">>))
                  /\ loc' = args
                  /\ UNCHANGED used_images
             ELSE IF InsufficientBalance(balance[1])
             THEN /\ Goto(Raised(fresh, <<"insufficient_balance">>))
                  /\ loc' = args
                  /\ UNCHANGED used_images
             ELSE /\ Goto([pc |-> "nonce",
                           result |-> [fresh EXCEPT !.steps_completed =
                                                      <<"balance_check">>]])
                  /\ IF available_images = {}
                     THEN /\ loc' = args
                          /\ UNCHANGED used_images
                     ELSE \E img \in AvailableUnused(available_images, used_images) :
                            /\ used_images' =
                                 UsedAfterReset(available_images, used_images)
                                   \cup {img}
                            /\ loc' = [args EXCEPT !.selected_image = Some(img)]
  /\ UNCHANGED <<lines, wallets, i, results, available_images, chain>>

\* create_token_complete returned create_result to process_wallet
ReturnCreate(create_result) ==
  Goto(AfterCreate(result, wallets[i], loc.selected_image, create_result))

\* the request is sent again after a failure
CreateRaised_Retried(err) == Stay(pc)

\* four_meme_bot.py:90-92, 161-163, 206-211, 299-301 and 395-398: the
\* exception of a failed request is logged and raised again up to
\* create_token_complete, which returns it as the error of its result
CreateRaised(err) == ReturnCreate(CreateFailure(err))

\* four_meme_bot.py:63-92 called from login (129)
GenerateNonce ==
  /\ pc = "nonce"
  /\ \E resp \in Responses :
       /\ Log(Call("http", "nonce", HttpOut(resp)))
       /\ IF ResponseOk(resp)
          THEN Stay("login")
          ELSE CreateRaised(<<"nonce_failed">>)
  /\ UNCHANGED <<batch, chain, blockchain_manager, access_token, loc>>

\* four_meme_bot.py:134-163 and 332-349: the login request, then the choice
\* between upload and creation request
LoginPost ==
  /\ pc = "login"
  /\ \E resp \in Responses, token \in {None, Some("token")} :
       /\ Log(Call("http", "login",
                   IF HttpOut(resp) # "ok" THEN HttpOut(resp)
                   ELSE IF token = None THEN "no_token" ELSE "ok"))
       /\ IF ~ResponseOk(resp)
          THEN /\ CreateRaised(<<"login_rejected">>)
               /\ UNCHANGED access_token
          ELSE /\ access_token' = token
               /\ IF token = None
                  THEN ReturnCreate(CreateFailure(<<"login_failed">>))
                  ELSE IF loc.selected_image # None
                  THEN Stay("upload")
                  ELSE Stay("create_api")
  /\ UNCHANGED <<batch, chain, blockchain_manager, loc>>

\* four_meme_bot.py:165-211 and 340-341
UploadImage ==
  /\ pc = "upload"
  /\ \/ \* the image file cannot be opened: no request is sent
        /\ Log(Call("file", "image", "unreadable"))
        /\ CreateRaised(<<"image_unreadable">>)
        /\ UNCHANGED loc
     \/ \E resp \in Responses :
          /\ Log(Call("http", "upload", HttpOut(resp)))
          /\ IF ResponseOk(resp)
             THEN /\ loc' = [loc EXCEPT !.imgUrl = Some("uploaded")]
                  /\ Stay("create_api")
             ELSE /\ CreateRaised(<<"upload_failed">>)
                  /\ UNCHANGED loc
  /\ UNCHANGED <<batch, chain, blockchain_manager, access_token>>

\* four_meme_bot.py:213-301 and 351-371: the creation request and the check
\* of the returned createArg and signature
CreateTokenApi ==
  /\ pc = "create_api"
  /\ \E resp \in Responses, has_args \in BOOLEAN :
       /\ Log(Call("http", "create",
                   IF HttpOut(resp) # "ok" THEN HttpOut(resp)
                   ELSE IF has_args THEN "ok" ELSE "no_args"))
       /\ IF ~ResponseOk(resp)
          THEN CreateRaised(<<"api_create_failed">>) /\ UNCHANGED loc
          ELSE IF ~has_args
          THEN /\ ReturnCreate(CreateFailure(<<"incomplete_deploy_args">>))
               /\ UNCHANGED loc
          ELSE /\ loc' = [loc EXCEPT
                            !.create_arg = CreateArg(i, Len(calls) + 1)]
               /\ Stay("create_send")
  /\ UNCHANGED <<batch, chain, blockchain_manager, access_token>>

\* the parsed address is used without the None test
MissingTokenAddress_Unchecked(token_address) == FALSE

\* blockchain_utils.py:215
MissingTokenAddress(token_address) == token_address = None

\* create_token_on_chain returned blockchain_result to deploy_to_blockchain
\* and create_token_complete (four_meme_bot.py:370-385, 400-423)
ReturnDeploy(blockchain_result) ==
  ReturnCreate(MergeBlockchainResult(blockchain_result, loc.purchase_amount))

\* blockchain_utils.py:269-309 within create_token_on_chain (203-212):
\* the creation transaction is built with the 'latest' nonce and value 0,
\* signed and handed to the node; pending transactions of the account may
\* have been mined by then
CreateSend ==
  /\ pc = "create_send"
  /\ \E out \in SendOutcomes,
        m \in chain.mined[loc.address]..chain.next[loc.address] :
       LET node == Mine(chain, loc.address, m)
           tx == Transaction(node, "create", CreateValue, None)
       IN /\ Log(Call("send", "create", out))
          /\ chain' = send_raw_transaction(node, tx, out)
          /\ IF out = "sent"
             THEN /\ loc' = Handed(loc, tx, out)
                  /\ Stay("create_wait")
             ELSE /\ loc' = Returns(Handed(loc, tx, out), "create",
                                    TxFailure(<<out>>))
                  /\ ReturnDeploy(TxFailure(<<out>>))
  /\ UNCHANGED <<batch, blockchain_manager, access_token>>

\* blockchain_utils.py:311-331, 404-455 and 211-250: the receipt wait, the
\* parse of the TokenCreate event and what create_token_on_chain does next
CreateWait ==
  /\ pc = "create_wait"
  /\ \E out \in WaitOutcomes, has_event \in BOOLEAN :
       /\ has_event => out = "confirmed"
       /\ chain' = Receipt(chain, out)
       /\ IF ~ReceiptOk(out)
          THEN /\ Log(Call("wait", "create", out))
               /\ loc' = Returns(loc, "create", TxFailure(<<out>>))
               /\ ReturnDeploy(TxFailure(<<out>>))
          ELSE LET token_address == parse_token_address_from_receipt(has_event)
               IN /\ calls' = calls \o
                       <<Call("wait", "create", out),
                         Call("parse", "create",
                              IF has_event THEN "ok" ELSE "no_event")>>
                  /\ loc' = [Returns(loc, "create",
                                     CreateOnlySuccess(token_address))
                               EXCEPT !.token_address = token_address]
                  /\ IF MissingTokenAddress(token_address)
                     THEN ReturnDeploy(TxFailure(<<"no_token_address">>))
                     ELSE IF ShouldBuyOnChain(loc.purchase_amount)
                     THEN Stay("chain_buy_send")
                     ELSE ReturnDeploy(CreateOnlySuccess(token_address))
  /\ UNCHANGED <<batch, blockchain_manager, access_token>>

\* blockchain_utils.py:350-384 called from create_token_on_chain (225)
ChainBuySend ==
  /\ pc = "chain_buy_send"
  /\ \E out \in SendOutcomes :
       LET tx == Transaction(chain, "buy", BuyValue(loc.purchase_amount),
                             loc.token_address)
       IN /\ Log(Call("send", "buy", out))
          /\ chain' = send_raw_transaction(chain, tx, out)
          /\ IF out = "sent"
             THEN /\ loc' = Handed(loc, tx, out)
                  /\ Stay("chain_buy_wait")
             ELSE /\ loc' = Returns(Handed(loc, tx, out), "buy",
                                    TxFailure(<<out>>))
                  /\ ReturnDeploy(CreateAndBuyResult(loc.token_address,
                                                     TxFailure(<<out>>)))
  /\ UNCHANGED <<batch, blockchain_manager, access_token>>

\* blockchain_utils.py:386-402 and 227-246
ChainBuyWait ==
  /\ pc = "chain_buy_wait"
  /\ \E out \in WaitOutcomes :
       LET buy_result == IF ReceiptOk(out) THEN BuySuccess
                         ELSE TxFailure(<<out>>)
       IN /\ Log(Call("wait", "buy", out))
          /\ chain' = Receipt(chain, out)
          /\ loc' = Returns(loc, "buy", buy_result)
          /\ ReturnDeploy(CreateAndBuyResult(loc.token_address, buy_result))
  /\ UNCHANGED <<batch, blockchain_manager, access_token>>

\* blockchain_utils.py:350-384 called from process_wallet (306-309)
WalletBuySend ==
  /\ pc = "buy_send"
  /\ \E out \in SendOutcomes :
       LET tx == Transaction(chain, "buy",
                             BuyValue(wallets[i].purchase_amount),
                             result.token_address)
       IN /\ Log(Call("send", "buy", out))
          /\ chain' = send_raw_transaction(chain, tx, out)
          /\ IF out = "sent"
             THEN /\ loc' = Handed(loc, tx, out)
                  /\ Stay("buy_wait")
             ELSE /\ loc' = Returns(Handed(loc, tx, out), "buy",
                                    TxFailure(<<out>>))
                  /\ Goto(AfterWalletBuy(result, wallets[i],
                                         TxFailure(<<out>>)))
  /\ UNCHANGED <<batch, blockchain_manager, access_token>>

\* blockchain_utils.py:386-402 and batch_runner.py:311-316
WalletBuyWait ==
  /\ pc = "buy_wait"
  /\ \E out \in WaitOutcomes :
       LET buy_result == IF ReceiptOk(out) THEN BuySuccess
                         ELSE TxFailure(<<out>>)
       IN /\ Log(Call("wait", "buy", out))
          /\ chain' = Receipt(chain, out)
          /\ loc' = Returns(loc, "buy", buy_result)
          /\ Goto(AfterWalletBuy(result, wallets[i], buy_result))
  /\ UNCHANGED <<batch, blockchain_manager, access_token>>

\* batch_runner.py:323-325: time.sleep(10)
Settle ==
  /\ pc = "settle"
  /\ Log(Call("sleep", "settle", "ok"))
  /\ Goto(AfterSettle(result, wallets[i]))
  /\ UNCHANGED <<batch, chain, blockchain_manager, access_token, loc>>

\* ------------------------------------------------------- the sell flow
\* sell_token_complete (or sell_token) returned sell_result to its caller,
\* whose locals are l
ReturnSellFrom(l, sell_result) ==
  /\ loc' = [l EXCEPT !.sell_result = sell_result]
  /\ Stay("sell_return")

ReturnSell(sell_result) == ReturnSellFrom(loc, sell_result)

SellFailure(err) == [success |-> FALSE, tx_hash |-> None, error |-> err]

\* blockchain_utils.py:513-562
get_token_balance(reading) == IF reading = None THEN 0 ELSE reading[1]

\* blockchain_utils.py:784
SellAmount(balance, sell_percentage) == (balance * sell_percentage) \div 100

\* four_meme_bot.py:460-482
SellToken ==
  /\ pc = "sell_token"
  /\ IF ~blockchain_manager
     THEN ReturnSell(SellFailure(<<"manager_disabled">>))
     ELSE Stay("sell_status") /\ UNCHANGED loc
  /\ UNCHANGED <<batch, chain, blockchain_manager, access_token, calls>>

\* blockchain_utils.py:755-767 with get_token_status (564-637)
SellStatus ==
  /\ pc = "sell_status"
  /\ \E out \in {"error"} \cup StatusCodes :
       /\ Log(Call("rpc", "status", out))
       /\ IF out = "error"
          THEN ReturnSell(SellFailure(<<"status_unavailable">>))
          ELSE IF ~CanTrade(out)
          THEN ReturnSell(SellFailure(<<"not_tradable", out>>))
          ELSE Stay("sell_balance") /\ UNCHANGED loc
  /\ UNCHANGED <<batch, chain, blockchain_manager, access_token>>

\* blockchain_utils.py:769-785
SellBalance ==
  /\ pc = "sell_balance"
  /\ \E reading \in TokenBalanceReadings :
       LET balance == get_token_balance(reading)
       IN /\ Log(Call("rpc", "token_balance",
                      IF reading = None THEN "error"
                      ELSE IF balance > 0 THEN "ok" ELSE "zero"))
          /\ IF balance <= 0
             THEN ReturnSell(SellFailure(<<"zero_balance">>))
             ELSE IF InvalidPercentage(loc.sell_percentage)
             THEN ReturnSell(SellFailure(<<"invalid_percentage">>))
             ELSE /\ loc' = [loc EXCEPT
                               !.balance = balance,
                               !.sell_amount = SellAmount(balance, loc.sell_percentage)]
                  /\ Stay("approve_send")
  /\ UNCHANGED <<batch, chain, blockchain_manager, access_token>>

\* blockchain_utils.py:849-914 called from sell_token_complete (790)
ApproveSend ==
  /\ pc = "approve_send"
  /\ \E out \in SendOutcomes :
       LET tx == Transaction(chain, "approve", 0, loc.token_address)
       IN /\ Log(Call("send", "approve", out))
          /\ chain' = send_raw_transaction(chain, tx, out)
          /\ IF out = "sent"
             THEN /\ loc' = Handed(loc, tx, out)
                  /\ Stay("approve_wait")
             ELSE ReturnSellFrom(Returns(Handed(loc, tx, out), "approve",
                                         TxFailure(<<out>>)),
                                 SellFailure(<<"approve_failed", out>>))
  /\ UNCHANGED <<batch, blockchain_manager, access_token>>

\* the sell follows whatever the approval's receipt wait gave
ApproveWait_FailureIgnored ==
  /\ pc = "approve_wait"
  /\ \E out \in WaitOutcomes :
       /\ Log(Call("wait", "approve", out))
       /\ chain' = Receipt(chain, out)
       /\ loc' = Returns(loc, "approve",
                         IF ReceiptOk(out) THEN ApproveSuccess
                         ELSE TxFailure(<<out>>))
       /\ Stay("sell_send")
  /\ UNCHANGED <<batch, blockchain_manager, access_token>>

\* blockchain_utils.py:916-932 and 791-796
ApproveWait ==
  /\ pc = "approve_wait"
  /\ \E out \in WaitOutcomes :
       /\ Log(Call("wait", "approve", out))
       /\ chain' = Receipt(chain, out)
       /\ IF ReceiptOk(out)
          THEN /\ loc' = Returns(loc, "approve", ApproveSuccess)
               /\ Stay("sell_send")
          ELSE ReturnSellFrom(Returns(loc, "approve", TxFailure(<<out>>)),
                              SellFailure(<<"approve_failed", out>>))
  /\ UNCHANGED <<batch, blockchain_manager, access_token>>

\* blockchain_utils.py:656-715 called from sell_token_complete (800)
SellSend ==
  /\ pc = "sell_send"
  /\ \E out \in SendOutcomes :
       LET tx == Transaction(chain, "sell", 0, loc.token_address)
       IN /\ Log(Call("send", "sell", out))
          /\ chain' = send_raw_transaction(chain, tx, out)
          /\ IF out = "sent"
             THEN /\ loc' = Handed(loc, tx, out)
                  /\ Stay("sell_wait")
             ELSE ReturnSellFrom(Returns(Handed(loc, tx, out), "sell",
                                         TxFailure(<<out>>)),
                                 SellFailure(<<out>>))
  /\ UNCHANGED <<batch, blockchain_manager, access_token>>

\* blockchain_utils.py:717-733 and 802-822
SellWait ==
  /\ pc = "sell_wait"
  /\ \E out \in WaitOutcomes :
       /\ Log(Call("wait", "sell", out))
       /\ chain' = Receipt(chain, out)
       /\ IF ReceiptOk(out)
          THEN ReturnSellFrom(Returns(loc, "sell", SellSuccess),
                              [success |-> TRUE, tx_hash |-> SellSuccess.tx_hash,
                               error |-> None])
          ELSE ReturnSellFrom(Returns(loc, "sell", TxFailure(<<out>>)),
                              SellFailure(<<out>>))
  /\ UNCHANGED <<batch, blockchain_manager, access_token>>

\* batch_runner.py:336-345: process_wallet takes the sell result
ProcessSellResult ==
  /\ pc = "sell_return"
  /\ Goto(AfterSell(result, loc.sell_result))
  /\ UNCHANGED <<batch, chain, blockchain_manager, access_token, loc, calls>>

\* the loop is left at the first wallet that failed
RunBatchStep_HaltsOnFailure ==
  /\ pc = "returned"
  /\ results' = Append(results, result)
  /\ IF i < Len(wallets) /\ result.success
     THEN i' = i + 1 /\ pc' = "wallet"
     ELSE i' = i /\ pc' = "report"
  /\ UNCHANGED <<lines, wallets, result, success_count, failed_count,
                 available_images, used_images, blockchain_manager,
                 access_token, loc, calls, chain>>

\* batch_runner.py:367-374: the result is recorded, the next wallet follows
RunBatchStep ==
  /\ pc = "returned"
  /\ results' = Append(results, result)
  /\ IF i < Len(wallets)
     THEN i' = i + 1 /\ pc' = "wallet"
     ELSE i' = i /\ pc' = "report"
  /\ UNCHANGED <<lines, wallets, result, success_count, failed_count,
                 available_images, used_images, blockchain_manager,
                 access_token, loc, calls, chain>>

\* batch_runner.py:376-379
GenerateReport ==
  /\ pc = "report"
  /\ pc' = "done"
  /\ UNCHANGED <<lines, wallets, i, result, results, success_count,
                 failed_count, available_images, used_images,
                 blockchain_manager, access_token, loc, calls, chain>>

\* ------------------------------------------------ the batch specification
NumField(v) == Field("num", v)

\* the lines a wallet file of the batch specification is made of
FileLines ==
  {Line("data", 4, "0xA", TRUE, NumField(p), NumField(s)) :
     p \in {0, 10}, s \in {0, 50, 150}}
  \cup {Line("comment", 1, "", TRUE, Field("blank", 0), Field("blank", 0)),
        Line("blank", 1, "", TRUE, Field("blank", 0), Field("blank", 0)),
        Line("data", 1, "0xA", TRUE, Field("blank", 0), Field("blank", 0)),
        Line("data", 4, "0xA", FALSE, NumField(10), NumField(150))}

Files == UNION {[1..n -> FileLines] : n \in 0..MaxLines}

\* the image files an images folder may hold (batch_runner.py:50-65)
ImageFiles == <<"a.png", "b.png", "c.png">>

\* batch_runner.py:38-48: the runner as constructed, and the file it is given
Init ==
  /\ lines \in Files
  /\ wallets = <<>>
  /\ i = 1
  /\ pc = "load"
  /\ result = NewResult(0, "")
  /\ results = <<>>
  /\ success_count = 0
  /\ failed_count = 0
  /\ available_images \in {{ImageFiles[k] : k \in 1..n} : n \in 0..MaxImages}
  /\ used_images = {}
  /\ blockchain_manager = FALSE
  /\ access_token = None
  /\ loc = NoLocals
  /\ calls = <<>>
  /\ chain = NoTransactions

SellFlow ==
  \/ SellToken
  \/ SellStatus
  \/ SellBalance
  \/ ApproveSend
  \/ ApproveWait
  \/ SellSend
  \/ SellWait

Next ==
  \/ LoadWallets
  \/ StartWallet
  \/ GenerateNonce
  \/ LoginPost
  \/ UploadImage
  \/ CreateTokenApi
  \/ CreateSend
  \/ CreateWait
  \/ ChainBuySend
  \/ ChainBuyWait
  \/ WalletBuySend
  \/ WalletBuyWait
  \/ Settle
  \/ SellFlow
  \/ ProcessSellResult
  \/ RunBatchStep
  \/ GenerateReport

Spec == Init /\ [][Next]_vars

\* the steps blocked in session.post, which is called without a timeout
\* (four_meme_bot.py:78, 150, 190, 277): the answer may never come
Unbounded ==
  \/ GenerateNonce
  \/ LoginPost
  \/ UploadImage
  \/ CreateTokenApi

\* the steps that complete or time out: local computation, the pauses, the
\* calls of the web3 provider and the receipt waits (blockchain_utils.py:404,
\* 417: timeout = 300)
Bounded ==
  \/ LoadWallets
  \/ StartWallet
  \/ CreateSend
  \/ CreateWait
  \/ ChainBuySend
  \/ ChainBuyWait
  \/ WalletBuySend
  \/ WalletBuyWait
  \/ Settle
  \/ SellFlow
  \/ ProcessSellResult
  \/ RunBatchStep
  \/ GenerateReport

\* the thread runs on whenever the step it is in is a bounded one
FairSpec == Spec /\ WF_vars(Bounded)

\* ------------------------------------------- the sell flow called directly
\* percentages a caller passes to FourMemeBot.sell_token
SellArguments == {-5, 0, 1, 50, 100, 101, 150}

\* a bot built for one wallet, sell_token(token_address, sell_percentage)
\* being called on it (four_meme_bot.py:460-482)
InitSell ==
  /\ lines = <<>>
  /\ wallets = <<>>
  /\ i = 1
  /\ pc = "sell_token"
  /\ result = NewResult(0, "")
  /\ results = <<>>
  /\ success_count = 0
  /\ failed_count = 0
  /\ available_images = {}
  /\ used_images = {}
  /\ blockchain_manager \in BOOLEAN
  /\ access_token = None
  /\ \E p \in SellArguments :
       loc = [NoLocals EXCEPT !.sell_percentage = p,
                              !.token_address = Some("0xtoken")]
  /\ calls = <<>>
  /\ chain = NoTransactions

SpecSell == InitSell /\ [][SellFlow]_vars

\* ------------------------------------- the batch over several wallets
\* positions at which the thread is blocked in a request, an RPC call, a
\* receipt wait or a sleep (the sleep between two wallets included)
Blocking ==
  {"nonce", "login", "upload", "create_api", "create_send", "create_wait",
   "chain_buy_send", "chain_buy_wait", "buy_send", "buy_wait", "settle",
   "sell_status", "sell_balance", "approve_send", "approve_wait",
   "sell_send", "sell_wait"}

\* KeyboardInterrupt raised in the blocked thread: no handler of
\* process_wallet (batch_runner.py:347) or run_batch catches it, main
\* (batch_runner.py:510-514) prints a message and returns
Interrupt ==
  /\ pc \in Blocking \/ (pc = "wallet" /\ i > 1)
  /\ pc' = "interrupted"
  /\ UNCHANGED <<lines, wallets, i, result, results, success_count,
                 failed_count, available_images, used_images,
                 blockchain_manager, access_token, loc, calls, chain>>

\* the lines a wallet file of the batch specification is made of: wallets
\* of two accounts that create a token and neither buy nor sell
BatchLines ==
  {Line("data", 4, a, TRUE, NumField(0), NumField(0)) : a \in Addresses}

BatchFiles == UNION {[1..n -> BatchLines] : n \in 1..MaxWallets}

\* batch_runner.py:38-48 and 508-511: the runner main builds and the file
\* it is given
InitBatch ==
  /\ lines \in BatchFiles
  /\ wallets = <<>>
  /\ i = 1
  /\ pc = "load"
  /\ result = NewResult(0, "")
  /\ results = <<>>
  /\ success_count = 0
  /\ failed_count = 0
  /\ available_images = {}
  /\ used_images = {}
  /\ blockchain_manager = FALSE
  /\ access_token = None
  /\ loc = NoLocals
  /\ calls = <<>>
  /\ chain = NoTransactions

\* run_batch over such a file, in a folder without images: the upload, buy
\* and sell steps are never entered
NextBatch ==
  \/ LoadWallets
  \/ StartWallet
  \/ GenerateNonce
  \/ LoginPost
  \/ CreateTokenApi
  \/ CreateSend
  \/ CreateWait
  \/ RunBatchStep
  \/ GenerateReport
  \/ Interrupt

SpecBatch == InitBatch /\ [][NextBatch]_vars

\* the thread runs on as long as it can
FairSpecBatch == SpecBatch /\ WF_vars(NextBatch)

\* ------------------------------------------- the retrying request helper
\* the method argument of make_request, as callers may spell it
Methods == {"GET", "POST", "post"}

\* str.upper on a method name
Upper(method) == IF method = "post" THEN "POST" ELSE method

\* utils.py:53-59: the request that is sent
HttpVerb(method) == IF Upper(method) = "POST" THEN "POST" ELSE "GET"

\* what one attempt can meet: a decoded reply, an HTTP error status
\* (raise_for_status), a refused or broken connection, a timeout, or a
\* body that is no JSON
AttemptOutcomes == {"ok", "http_error", "connection_error", "timeout", "bad_json"}

\* utils.py:64: the failure is a requests.exceptions.RequestException; the
\* decoding error of response.json() is one in some versions of requests
\* and a plain ValueError in others
IsRequestException(out, json_error_is_request_exception) ==
  \/ out \in {"http_error", "connection_error", "timeout"}
  \/ out = "bad_json" /\ json_error_is_request_exception

\* the test for the last pass is off by one
LastAttempt_OnePassLate(attempt, max_retries) == attempt = max_retries

\* utils.py:66
LastAttempt(attempt, max_retries) == attempt = max_retries - 1

\* utils.py:51-67: one pass of the loop of make_request
RequestAttempt ==
  /\ pc = "request"
  /\ IF loc.attempt >= loc.max_retries
     THEN \* the loop is over without a return: the helper returns None
          pc' = "exhausted" /\ UNCHANGED calls
     ELSE \E out \in AttemptOutcomes, lib \in BOOLEAN :
            /\ out # "bad_json" => lib
            /\ Log(Call("http", HttpVerb(loc.method), out))
            /\ pc' = IF out = "ok" THEN "responded"
                     ELSE IF ~IsRequestException(out, lib) THEN "raised"
                     ELSE IF LastAttempt(loc.attempt, loc.max_retries)
                     THEN "raised"
                     ELSE "backoff"
  /\ UNCHANGED <<lines, wallets, i, result, results, success_count,
                 failed_count, available_images, used_images,
                 blockchain_manager, access_token, loc, chain>>

\* utils.py:68 and 51: time.sleep(1), then the next pass
RetrySleep ==
  /\ pc = "backoff"
  /\ Log(Call("sleep", "retry", "ok"))
  /\ loc' = [loc EXCEPT !.attempt = @ + 1]
  /\ pc' = "request"
  /\ UNCHANGED <<lines, wallets, i, result, results, success_count,
                 failed_count, available_images, used_images,
                 blockchain_manager, access_token, chain>>

\* utils.py:25-49: make_request(method, url, ..., max_retries) is called
InitRequest ==
  /\ lines = <<>>
  /\ wallets = <<>>
  /\ i = 1
  /\ pc = "request"
  /\ result = NewResult(0, "")
  /\ results = <<>>
  /\ success_count = 0
  /\ failed_count = 0
  /\ available_images = {}
  /\ used_images = {}
  /\ blockchain_manager = FALSE
  /\ access_token = None
  /\ \E method \in Methods, max_retries \in 0..DefaultMaxRetries :
       loc = [method |-> method, max_retries |-> max_retries, attempt |-> 0]
  /\ calls = <<>>
  /\ chain = NoTransactions

NextRequest == RequestAttempt \/ RetrySleep

SpecRequest == InitRequest /\ [][NextRequest]_vars

\* ------------------------------------------- the loader on its own
\* longest wallet file the loader specification reads
MaxLoadLines == 2

\* the optional fields of a line as written in the file
TextField == Field("text", 0)
BlankField == Field("blank", 0)

\* batch_runner.py:98-142: the lines a wallet file can hold
LoadLines ==
  {Line("data", 4, "0xA", TRUE, p, s) :
     p \in {NumField(10), TextField, BlankField},
     s \in {NumField(0), NumField(50), NumField(150), TextField, BlankField}}
  \cup {Line("data", 2, "0xA", TRUE, BlankField, BlankField),
        Line("data", 3, "0xA", TRUE, NumField(10), BlankField),
        Line("data", 3, "0xA", TRUE, TextField, BlankField),
        Line("data", 1, "0xA", TRUE, BlankField, BlankField),
        Line("data", 4, "0xA", FALSE, NumField(10), NumField(50)),
        Line("comment", 1, "", TRUE, BlankField, BlankField),
        Line("blank", 1, "", TRUE, BlankField, BlankField),
        Mismatched(Line("data", 4, "0xA", TRUE, NumField(10), NumField(50))),
        Mismatched(Line("data", 2, "0xA", TRUE, BlankField, BlankField))}

LoadFiles == UNION {[1..n -> LoadLines] : n \in 0..MaxLoadLines}

\* load_wallets_from_file applied to any such file
InitLoad ==
  /\ lines \in LoadFiles
  /\ wallets = <<>>
  /\ i = 1
  /\ pc = "load"
  /\ result = NewResult(0, "")
  /\ results = <<>>
  /\ success_count = 0
  /\ failed_count = 0
  /\ available_images = {}
  /\ used_images = {}
  /\ blockchain_manager = FALSE
  /\ access_token = None
  /\ loc = NoLocals
  /\ calls = <<>>
  /\ chain = NoTransactions

NextLoad == LoadWallets

SpecLoad == InitLoad /\ [][NextLoad]_vars

\* ---------------------------------------- the generated token config
\* batch_runner.py:172-181
token_names ==
   {"Moon", "Rocket", "Diamond", "Golden", "Cyber", "Quantum", "Stellar",
    "Phoenix", "Thunder", "Lightning", "Fire", "Ice", "Storm", "Wind",
    "Earth", "Ocean", "Alpha", "Beta", "Gamma", "Delta", "Omega",
    "Prime", "Ultra", "Super", "Mega", "Giga", "Tera", "Nova", "Apex",
    "Elite", "Pro", "Max", "King", "Queen", "Lord", "Master", "Champion",
    "Legend", "Hero", "Warrior", "Dragon", "Tiger", "Lion", "Eagle",
    "Wolf", "Bear", "Shark", "Falcon", "Crypto", "Block", "Chain",
    "Hash", "Node", "Mint", "Stake", "Yield", "DeFi", "NFT", "Meta",
    "Web3", "DAO", "DEX", "AMM", "LP"}

\* batch_runner.py:184-187
suffixes ==
   {"Token", "Coin", "Finance", "Protocol", "Network", "Chain", "Swap",
    "DAO", "AI", "Bot", "Lab", "Tech", "Verse", "World", "Land"}

\* batch_runner.py:216
labels == {"AI", "Meme", "DeFi", "Games", "Social", "Others"}

\* batch_runner.py:219-222: the shortest and the longest of the 15 domains
domains == {"app", "protocol"}

\* batch_runner.py:201: the ends of random.randint(10, 99), as written by str
Digits == {"10", "99"}

\* str.upper on one character
UpperChar(c) ==
  LET small == "abcdefghijklmnopqrstuvwxyz"
      capital == "ABCDEFGHIJKLMNOPQRSTUVWXYZ"
      at == {k \in 1..Len(small) : SubSeq(small, k, k) = c}
  IN IF at = {} THEN c ELSE LET k == CHOOSE k \in at : TRUE IN SubSeq(capital, k, k)

\* str.upper
RECURSIVE upper(_)
upper(s) ==
  IF Len(s) = 0 THEN ""
  ELSE UpperChar(SubSeq(s, 1, 1)) \o upper(SubSeq(s, 2, Len(s)))

\* str.lower on one character
LowerChar(c) ==
  LET small == "abcdefghijklmnopqrstuvwxyz"
      capital == "ABCDEFGHIJKLMNOPQRSTUVWXYZ"
      at == {k \in 1..Len(capital) : SubSeq(capital, k, k) = c}
  IN IF at = {} THEN c ELSE LET k == CHOOSE k \in at : TRUE IN SubSeq(small, k, k)

\* str.lower
RECURSIVE lower(_)
lower(s) ==
  IF Len(s) = 0 THEN ""
  ELSE LowerChar(SubSeq(s, 1, 1)) \o lower(SubSeq(s, 2, Len(s)))

\* batch_runner.py:195-198
Symbol(base_name) ==
  IF Len(base_name) <= 4 THEN upper(base_name)
  ELSE upper(SubSeq(base_name, 1, 3))
         \o upper(SubSeq(base_name, Len(base_name), Len(base_name)))

\* batch_runner.py:204-213
descriptions(full_name, base_name) ==
  <<full_name \o " is a revolutionary cryptocurrency designed for the future of decentralized finance.",
    "Join the " \o base_name \o " revolution! " \o full_name \o " brings innovation to the blockchain ecosystem.",
    full_name \o " - Empowering the next generation of digital assets and smart contracts.",
    "Experience the power of " \o base_name \o "! " \o full_name \o " is building the future of Web3.",
    full_name \o " combines cutting-edge technology with community-driven governance.",
    "Welcome to " \o base_name \o "! " \o full_name \o " is your gateway to decentralized opportunities.",
    full_name \o " - Where innovation meets opportunity in the world of cryptocurrency.",
    "Discover " \o base_name \o "! " \o full_name \o " is revolutionizing how we think about digital value.">>

\* batch_runner.py:169-235: the config built from the six random draws
create_token_config(base_name, suffix, digits, d, label, domain) ==
  LET full_name == base_name \o " " \o suffix
      website_name == lower(base_name) \o domain
  IN [name |-> full_name,
      shortName |-> Symbol(base_name) \o digits,
      desc |-> descriptions(full_name, base_name)[d],
      label |-> label,
      webUrl |-> "https://" \o website_name \o ".com",
      twitterUrl |-> "",
      telegramUrl |-> "",
      preSale |-> "0"]

\* str.startswith
StartsWith(s, prefix) ==
  Len(s) >= Len(prefix) /\ SubSeq(s, 1, Len(prefix)) = prefix

\* utils.py:265: the labels of the platform, as in config.py:68-71
supported_labels ==
  {"Meme", "AI", "Defi", "Games", "Infra", "De-Sci", "Social", "Depin",
   "Charity", "Others"}

\* utils.py:266
LabelSupported(label) == label \in supported_labels

\* utils.py:277-283: float() of the preSale texts that occur
FloatOf == [s \in {"0"} |-> 0]

\* one check of validate_token_config: its message when the test fires
Check(fires, message) == IF fires THEN <<message>> ELSE <<>>

\* utils.py:234-285: the list of error messages, in the order of the checks
validate_token_config(config) ==
  Check(config.name = "", "missing_name")
  \o Check(config.shortName = "", "missing_shortName")
  \o Check(config.desc = "", "missing_desc")
  \o Check(config.name # "" /\ Len(config.name) > 50, "name_too_long")
  \o Check(config.shortName # "" /\ Len(config.shortName) > 10,
           "shortName_too_long")
  \o Check(config.desc # "" /\ Len(config.desc) > 500, "desc_too_long")
  \o Check(config.label # "" /\ ~LabelSupported(config.label),
           "unsupported_label")
  \o Check(config.webUrl # "" /\ ~(StartsWith(config.webUrl, "http://")
                                   \/ StartsWith(config.webUrl, "https://")),
           "webUrl_scheme")
  \o Check(config.twitterUrl # ""
             /\ ~(StartsWith(config.twitterUrl, "http://")
                  \/ StartsWith(config.twitterUrl, "https://")),
           "twitterUrl_scheme")
  \o Check(config.telegramUrl # ""
             /\ ~(StartsWith(config.telegramUrl, "http://")
                  \/ StartsWith(config.telegramUrl, "https://")),
           "telegramUrl_scheme")
  \o Check(config.preSale # "" /\ config.preSale \notin DOMAIN FloatOf,
           "preSale_not_a_number")
  \o Check(config.preSale \in DOMAIN FloatOf /\ config.preSale # ""
             /\ FloatOf[config.preSale] < 0, "preSale_negative")

\* batch_runner.py:169-235: create_token_config draws and returns a config
CreateTokenConfig ==
  /\ pc = "config"
  /\ \E base_name \in token_names, suffix \in suffixes, digits \in Digits,
        d \in 1..8, label \in labels, domain \in domains :
       loc' = [config |-> create_token_config(base_name, suffix, digits, d,
                                              label, domain)]
  /\ pc' = "validate"
  /\ UNCHANGED <<lines, wallets, i, result, results, success_count,
                 failed_count, available_images, used_images,
                 blockchain_manager, access_token, calls, chain>>

\* utils.py:234-285: validate_token_config is applied to the config
ValidateTokenConfig ==
  /\ pc = "validate"
  /\ loc' = [config |-> loc.config,
             errors |-> validate_token_config(loc.config)]
  /\ pc' = "validated"
  /\ UNCHANGED <<lines, wallets, i, result, results, success_count,
                 failed_count, available_images, used_images,
                 blockchain_manager, access_token, calls, chain>>

InitConfig ==
  /\ lines = <<>>
  /\ wallets = <<>>
  /\ i = 1
  /\ pc = "config"
  /\ result = NewResult(0, "")
  /\ results = <<>>
  /\ success_count = 0
  /\ failed_count = 0
  /\ available_images = {}
  /\ used_images = {}
  /\ blockchain_manager = FALSE
  /\ access_token = None
  /\ loc = NoLocals
  /\ calls = <<>>
  /\ chain = NoTransactions

NextConfig == CreateTokenConfig \/ ValidateTokenConfig

SpecConfig == InitConfig /\ [][NextConfig]_vars

\* --------------------------------------- the image of the new token
\* A value looked up in a dict: the key is absent, or holds None or a string.
Absent == [k |-> "absent", s |-> ""]
NoneValue == [k |-> "none", s |-> ""]
Str(s) == [k |-> "str", s |-> s]

\* dict.get(key, default): the default stands in for an absent key only
DictGet(entry, default) == IF entry.k = "absent" THEN default ELSE entry

\* truth value of a looked-up value: None and "" are false
Truthy(entry) == entry.k = "str" /\ entry.s # ""

\* four_meme_bot.py:234
DefaultImgUrl == "https://static.four.meme/market/default-token-logo.png"

\* four_meme_bot.py:300-301: the image_path argument
ImagePaths == {NoneValue, Str(""), Str("a.png"), Str("b.png")}

\* the imgUrl entry of the token_config argument
CallerImgUrls ==
  {Absent, NoneValue, Str(""), Str("https://example.com/a.png"),
   Str("https://example.com/b.png")}

\* the label entry of the token_config argument
CallerLabels == {Absent, Str("AI")}

\* four_meme_bot.py:165-202: what upload_image can do, return a URL or raise
UploadAnswers ==
  {Str("https://static.four.meme/market/1.png"),
   Str("https://static.four.meme/market/2.png"), Str("raise")}

\* four_meme_bot.py:337-349: step 2 of create_token_complete
ResolveImage ==
  /\ pc = "resolve_image"
  /\ IF Truthy(loc.image_path)
     THEN \E answer \in UploadAnswers :
            IF answer = Str("raise")
            THEN pc' = "failed" /\ UNCHANGED loc
            ELSE /\ loc' = [loc EXCEPT !.token_config.imgUrl = answer,
                                       !.uploaded = answer]
                 /\ pc' = "create_token"
     ELSE pc' = "create_token" /\ UNCHANGED loc
  /\ UNCHANGED <<lines, wallets, i, result, results, success_count,
                 failed_count, available_images, used_images,
                 blockchain_manager, access_token, calls, chain>>

\* four_meme_bot.py:229-240: the payload of the creation request
Payload(token_config) ==
  [imgUrl |-> DictGet(token_config.imgUrl, Str(DefaultImgUrl)),
   label |-> DictGet(token_config.label, Str("Meme"))]

\* four_meme_bot.py:351-353, 204-240: create_token builds the request
BuildPayload ==
  /\ pc = "create_token"
  /\ loc' = [loc EXCEPT !.payload = Payload(loc.token_config)]
  /\ pc' = "requested"
  /\ UNCHANGED <<lines, wallets, i, result, results, success_count,
                 failed_count, available_images, used_images,
                 blockchain_manager, access_token, calls, chain>>

\* four_meme_bot.py:300-335: create_token_complete(token_config, image_path)
\* after its login; config_in keeps the config as it was passed
InitImage ==
  /\ lines = <<>>
  /\ wallets = <<>>
  /\ i = 1
  /\ pc = "resolve_image"
  /\ result = NewResult(0, "")
  /\ results = <<>>
  /\ success_count = 0
  /\ failed_count = 0
  /\ available_images = {}
  /\ used_images = {}
  /\ blockchain_manager = FALSE
  /\ access_token = Some("token")
  /\ \E image_path \in ImagePaths, imgUrl \in CallerImgUrls,
        label \in CallerLabels :
       loc = [image_path |-> image_path,
              config_in |-> [imgUrl |-> imgUrl, label |-> label],
              token_config |-> [imgUrl |-> imgUrl, label |-> label],
              uploaded |-> Absent,
              payload |-> [imgUrl |-> Absent, label |-> Absent]]
  /\ calls = <<>>
  /\ chain = NoTransactions

NextImage == ResolveImage \/ BuildPayload

SpecImage == InitImage /\ [][NextImage]_vars

\* ------------------------------------- one transaction, stage by stage
\* largest transaction count the node answers
MaxTxNonce == 2

\* _create_token_only and _buy_token
TxKinds == {"create", "buy"}

\* gas prices in gwei, as passed in or read from the node
GasPrices == {5, 6}

\* a library call that returns or raises
StageOutcomes == {"ok", "raise"}

\* blockchain_utils.py:325-330, 396-401: the except branch of the operation
TxRaised(label) == [pc |-> "tx_returned", tx_result |-> Some(TxFailure(<<label>>))]

\* a failed broadcast is followed by a new signature and a new broadcast
TxNext_Resend(stage, out) ==
  IF stage = "build"
  THEN IF out = "ok" THEN [pc |-> "tx_sign", tx_result |-> None]
       ELSE TxRaised("build_error")
  ELSE IF stage = "sign"
  THEN IF out = "ok" THEN [pc |-> "tx_send", tx_result |-> None]
       ELSE TxRaised("sign_error")
  ELSE IF out = "sent" THEN [pc |-> "tx_sent", tx_result |-> None]
       ELSE [pc |-> "tx_sign", tx_result |-> None]

\* blockchain_utils.py:289-309, 363-384: where the operation goes after
\* build_transaction, sign_transaction and send_raw_transaction
TxNext(stage, out) ==
  IF stage = "build"
  THEN IF out = "ok" THEN [pc |-> "tx_sign", tx_result |-> None]
       ELSE TxRaised("build_error")
  ELSE IF stage = "sign"
  THEN IF out = "ok" THEN [pc |-> "tx_send", tx_result |-> None]
       ELSE TxRaised("sign_error")
  ELSE IF out = "sent" THEN [pc |-> "tx_sent", tx_result |-> None]
       ELSE TxRaised("send_error")

\* the step TxNext or the receipt wait decided
TxGoto(next) ==
  /\ pc' = next.pc
  /\ loc' = [loc EXCEPT !.tx_result = next.tx_result]

\* blockchain_utils.py:270-287, 351-359: the nonce and the gas price
TxPrepare ==
  /\ pc = "tx_prepare"
  /\ \/ /\ Log(Call("rpc", "nonce", "error"))
        /\ TxGoto(TxRaised("nonce_error"))
     \/ \E nonce \in 0..MaxTxNonce, gas_price \in GasPrices :
          /\ Log(Call("rpc", "nonce", "ok"))
          /\ loc' = [loc EXCEPT !.nonce = Some(nonce),
                                !.gas_price = Some(gas_price)]
          /\ pc' = "tx_build"
  /\ UNCHANGED <<lines, wallets, i, result, results, success_count,
                 failed_count, available_images, used_images,
                 blockchain_manager, access_token, chain>>

\* blockchain_utils.py:290-298, 363-373: build_transaction
TxBuild ==
  /\ pc = "tx_build"
  /\ \E out \in StageOutcomes :
       /\ Log(Call("build", loc.kind, out))
       /\ TxGoto(TxNext("build", out))
  /\ UNCHANGED <<lines, wallets, i, result, results, success_count,
                 failed_count, available_images, used_images,
                 blockchain_manager, access_token, chain>>

\* blockchain_utils.py:303, 378: sign_transaction
TxSign ==
  /\ pc = "tx_sign"
  /\ \E out \in StageOutcomes :
       /\ Log(Call("sign", loc.kind, out))
       /\ TxGoto(TxNext("sign", out))
  /\ UNCHANGED <<lines, wallets, i, result, results, success_count,
                 failed_count, available_images, used_images,
                 blockchain_manager, access_token, chain>>

\* blockchain_utils.py:306-307, 381-382: send_raw_transaction
TxSend ==
  /\ pc = "tx_send"
  /\ \E out \in {"sent", "send_error"} :
       /\ Log(Call("send", loc.kind, out))
       /\ TxGoto(TxNext("send", out))
  /\ UNCHANGED <<lines, wallets, i, result, results, success_count,
                 failed_count, available_images, used_images,
                 blockchain_manager, access_token, chain>>

\* blockchain_utils.py:309-312, 384-387: the hash is logged and
\* wait_for_transaction is entered
TxEnterWait ==
  /\ pc = "tx_sent"
  /\ pc' = "tx_wait"
  /\ UNCHANGED <<lines, wallets, i, result, results, success_count,
                 failed_count, available_images, used_images,
                 blockchain_manager, access_token, loc, calls, chain>>

\* blockchain_utils.py:404-429 with 314-324 and 389-395: the receipt wait
\* and the result of the operation
TxWait ==
  /\ pc = "tx_wait"
  /\ \E out \in WaitOutcomes, has_event \in BOOLEAN :
       /\ has_event => (out = "confirmed" /\ loc.kind = "create")
       /\ Log(Call("wait", loc.kind, out))
       /\ TxGoto(IF ~ReceiptOk(out) THEN TxRaised(out)
                 ELSE [pc |-> "tx_returned",
                       tx_result |->
                         Some(IF loc.kind = "create"
                              THEN CreateOnlySuccess(
                                     parse_token_address_from_receipt(has_event))
                              ELSE BuySuccess)])
  /\ UNCHANGED <<lines, wallets, i, result, results, success_count,
                 failed_count, available_images, used_images,
                 blockchain_manager, access_token, chain>>

\* _create_token_only or _buy_token is called
InitTx ==
  /\ lines = <<>>
  /\ wallets = <<>>
  /\ i = 1
  /\ pc = "tx_prepare"
  /\ result = NewResult(0, "")
  /\ results = <<>>
  /\ success_count = 0
  /\ failed_count = 0
  /\ available_images = {}
  /\ used_images = {}
  /\ blockchain_manager = TRUE
  /\ access_token = None
  /\ \E kind \in TxKinds :
       loc = [kind |-> kind, nonce |-> None, gas_price |-> None,
              tx_result |-> None]
  /\ calls = <<>>
  /\ chain = NoTransactions

NextTx == TxPrepare \/ TxBuild \/ TxSign \/ TxSend \/ TxEnterWait \/ TxWait

SpecTx == InitTx /\ [][NextTx]_vars

\* --------------------------------------------- the amount that is sold
\* F at the value of v, and at the values of u and v: a value that is used
\* several times is computed once
With(v, F(_)) == CHOOSE y \in {F(x) : x \in {v}} : TRUE
With2(u, v, F(_, _)) == CHOOSE y \in {F(x1, x2) : x1 \in {u}, x2 \in {v}} : TRUE

\* Python integers of any size: the limbs below LimbBase, lowest first,
\* without a leading zero limb
LimbBits == 15
LimbBase == 32768

RECURSIVE NormFrom(_, _)
NormFrom(a, k) ==
  IF k = 0 \/ a[k] # 0 THEN SubSeq(a, 1, k) ELSE NormFrom(a, k - 1)

\* a without its leading zero limbs
Norm(a) == With(a, LAMBDA x : NormFrom(x, Len(x)))

RECURSIVE FromInt(_)
FromInt(n) ==
  IF n = 0 THEN <<>> ELSE <<n % LimbBase>> \o FromInt(n \div LimbBase)

Limb(a, k) == IF k \in DOMAIN a THEN a[k] ELSE 0

RECURSIVE CmpFrom(_, _, _)
CmpFrom(a, b, k) ==
  IF k = 0 THEN 0
  ELSE IF a[k] < b[k] THEN -1
  ELSE IF a[k] > b[k] THEN 1
  ELSE CmpFrom(a, b, k - 1)

\* -1, 0 or 1 as a is below, equal to or above b
Cmp(a, b) ==
  With2(a, b, LAMBDA x, y :
    IF Len(x) < Len(y) THEN -1
    ELSE IF Len(x) > Len(y) THEN 1
    ELSE CmpFrom(x, y, Len(x)))

RECURSIVE AddFrom(_, _, _, _)
AddFrom(a, b, k, carry) ==
  IF k > Len(a) /\ k > Len(b) THEN FromInt(carry)
  ELSE <<(Limb(a, k) + Limb(b, k) + carry) % LimbBase>>
         \o AddFrom(a, b, k + 1,
                    (Limb(a, k) + Limb(b, k) + carry) \div LimbBase)

BigAdd(a, b) == With2(a, b, LAMBDA x, y : AddFrom(x, y, 1, 0))

RECURSIVE SubFrom(_, _, _, _)
SubFrom(a, b, k, borrow) ==
  IF k > Len(a) THEN <<>>
  ELSE <<(a[k] - Limb(b, k) - borrow + LimbBase) % LimbBase>>
         \o SubFrom(a, b, k + 1,
                    IF a[k] - Limb(b, k) - borrow < 0 THEN 1 ELSE 0)

\* a - b for a >= b
BigSub(a, b) == With2(a, b, LAMBDA x, y : Norm(SubFrom(x, y, 1, 0)))

RECURSIVE MulSmallFrom(_, _, _, _)
MulSmallFrom(a, n, k, carry) ==
  IF k > Len(a) THEN FromInt(carry)
  ELSE <<(a[k] * n + carry) % LimbBase>>
         \o MulSmallFrom(a, n, k + 1, (a[k] * n + carry) \div LimbBase)

\* a * n for 0 <= n <= LimbBase
MulSmall(a, n) ==
  With2(a, n, LAMBDA x, k : IF k = 0 THEN <<>> ELSE MulSmallFrom(x, k, 1, 0))

\* a * LimbBase^n
ShiftLimbs(a, n) ==
  With(a, LAMBDA x : IF x = <<>> THEN <<>> ELSE [k \in 1..n |-> 0] \o x)

RECURSIVE MulFrom(_, _, _)
MulFrom(a, b, k) ==
  IF k > Len(b) THEN <<>>
  ELSE BigAdd(ShiftLimbs(MulSmall(a, b[k]), k - 1), MulFrom(a, b, k + 1))

BigMul(a, b) == With2(a, b, LAMBDA x, y : MulFrom(x, y, 1))

RECURSIVE PowerOfTwo(_)
PowerOfTwo(n) == IF n = 0 THEN 1 ELSE 2 * PowerOfTwo(n - 1)

\* a * 2^n
Shl(a, n) ==
  With(n, LAMBDA k :
    ShiftLimbs(MulSmall(a, PowerOfTwo(k % LimbBits)), k \div LimbBits))

RECURSIVE DivSmallFrom(_, _, _, _)
DivSmallFrom(a, n, k, rem) ==
  IF k = 0 THEN <<>>
  ELSE DivSmallFrom(a, n, k - 1, (rem * LimbBase + a[k]) % n)
         \o <<(rem * LimbBase + a[k]) \div n>>

\* a \div n for 0 < n < LimbBase
DivSmall(a, n) ==
  With2(a, n, LAMBDA x, k : Norm(DivSmallFrom(x, k, Len(x), 0)))

\* a \div 2^n
Shr(a, n) ==
  With2(a, n, LAMBDA x, k :
    IF k \div LimbBits >= Len(x) THEN <<>>
    ELSE DivSmall(SubSeq(x, k \div LimbBits + 1, Len(x)),
                  PowerOfTwo(k % LimbBits)))

RECURSIVE IntBits(_)
IntBits(n) == IF n = 0 THEN 0 ELSE 1 + IntBits(n \div 2)

\* int.bit_length
BitLen(a) ==
  With(a, LAMBDA x :
    IF x = <<>> THEN 0 ELSE LimbBits * (Len(x) - 1) + IntBits(x[Len(x)]))

IsOdd(a) == With(a, LAMBDA x : x # <<>> /\ x[1] % 2 = 1)

RECURSIVE DigitFrom(_, _, _, _)
\* the largest g below LimbBase with d * g <= n, found bit by bit
DigitFrom(n, d, bit, g) ==
  IF bit < 0 THEN g
  ELSE IF Cmp(MulSmall(d, g + PowerOfTwo(bit)), n) <= 0
  THEN DigitFrom(n, d, bit - 1, g + PowerOfTwo(bit))
  ELSE DigitFrom(n, d, bit - 1, g)

RECURSIVE DivModFrom(_, _, _)
\* long division: the limbs of the quotient from position j down
DivModFrom(n, d, j) ==
  IF j < 0 THEN [q |-> <<>>, r |-> n]
  ELSE With(ShiftLimbs(d, j), LAMBDA dj :
       With(DigitFrom(n, dj, LimbBits - 1, 0), LAMBDA g :
       With(BigSub(n, MulSmall(dj, g)), LAMBDA n1 :
       With(DivModFrom(n1, d, j - 1), LAMBDA rest :
         [q |-> rest.q \o <<g>>, r |-> rest.r]))))

\* divmod(n, d) for d > 0
BigDivMod(n, d) ==
  With2(n, d, LAMBDA x, y :
    With(DivModFrom(x, y, Len(x) - Len(y)), LAMBDA dm :
      [q |-> Norm(dm.q), r |-> dm.r]))

RECURSIVE TenTo(_)
\* 10 ** n
TenTo(n) == IF n = 0 THEN <<1>> ELSE MulSmall(TenTo(n - 1), 10)

\* A Python float (IEEE 754 binary64) above zero is m * 2^e with a
\* mantissa m of exactly MantissaBits bits; zero has the empty mantissa.
MantissaBits == 53

\* the quotient and remainder of n by d * 2^e, and the divisor taken
Scaled(n, d, e) ==
  IF e >= 0
  THEN With(Shl(d, e), LAMBDA den : [dm |-> BigDivMod(n, den), den |-> den])
  ELSE [dm |-> BigDivMod(Shl(n, -e), d), den |-> d]

\* the quotient s, of exactly MantissaBits bits, rounded to nearest with
\* ties to the even mantissa
Nearest(s, e) ==
  With(Cmp(Shl(s.dm.r, 1), s.den), LAMBDA c :
  With(IF c > 0 \/ (c = 0 /\ IsOdd(s.dm.q)) THEN BigAdd(s.dm.q, <<1>>)
       ELSE s.dm.q, LAMBDA m :
    IF BitLen(m) > MantissaBits THEN [m |-> Shr(m, 1), e |-> e + 1]
    ELSE [m |-> m, e |-> e]))

\* the float nearest to n / d
Round(n, d) ==
  With2(n, d, LAMBDA x, y :
    IF x = <<>> THEN [m |-> <<>>, e |-> 0]
    ELSE With(BitLen(x) - BitLen(y) - MantissaBits, LAMBDA e0 :
         With(Scaled(x, y, e0), LAMBDA first :
           IF BitLen(first.dm.q) > MantissaBits
           THEN With(Scaled(x, y, e0 + 1), LAMBDA s : Nearest(s, e0 + 1))
           ELSE Nearest(first, e0))))

\* float * float
FloatMul(x, y) ==
  With2(x, y, LAMBDA a, b :
    With(BigMul(a.m, b.m), LAMBDA p :
      IF a.e + b.e >= 0 THEN Round(Shl(p, a.e + b.e), <<1>>)
      ELSE Round(p, Shl(<<1>>, -(a.e + b.e)))))

\* float(n) for an integer n
Float(n) == Round(n, <<1>>)

\* int(x) for a float x >= 0
Trunc(x) ==
  With(x, LAMBDA a : IF a.e >= 0 THEN Shl(a.m, a.e) ELSE Shr(a.m, -a.e))

\* blockchain_utils.py:551-555: balance_wei / (10 ** decimals)
TokenBalance(balance_wei, decimals) == Round(balance_wei, TenTo(decimals))

\* blockchain_utils.py:784: balance * (sell_percentage / 100)
SellAmountOf(balance, sell_percentage) ==
  FloatMul(balance, Round(FromInt(sell_percentage), FromInt(100)))

Quantum == FromInt(1000000000)

\* a quantization that rounds up to the next multiple
Quantized_Up(amount_wei, decimals) ==
  IF decimals = 18
  THEN BigMul(BigAdd(BigDivMod(amount_wei, Quantum).q, <<1>>), Quantum)
  ELSE amount_wei

\* blockchain_utils.py:680-681
Quantized(amount_wei, decimals) ==
  IF decimals = 18 THEN BigMul(BigDivMod(amount_wei, Quantum).q, Quantum)
  ELSE amount_wei

\* blockchain_utils.py:676-681: int(amount * (10 ** decimals)), quantized
AmountWei(amount, decimals) ==
  Quantized(Trunc(FloatMul(amount, Float(TenTo(decimals)))), decimals)

\* whole tokens held by the wallet
TokenCounts == {0, 1, 5000, 10000000, 800000000, 1000000000}

\* base units held on top of the whole tokens
Dust == {0, 1, 999999999}

\* the sell percentages passed to sell_token_complete
Percentages == {0, 1, 50, 100}

\* decimals() of the token
TokenDecimals == {9, 18}

\* blockchain_utils.py:550-558: get_token_balance reads balanceOf and
\* decimals and converts; sell_token_complete (769-775) stops at a balance
\* of zero
GetTokenBalance ==
  /\ pc = "get_token_balance"
  /\ \E balance \in {TokenBalance(loc.balance_wei, loc.decimals)} :
       /\ loc' = [loc EXCEPT !.balance = Some(balance)]
       /\ pc' = IF balance.m = <<>> THEN "sell_failed" ELSE "sell_amount"
  /\ UNCHANGED <<lines, wallets, i, result, results, success_count,
                 failed_count, available_images, used_images,
                 blockchain_manager, access_token, calls, chain>>

\* blockchain_utils.py:777-785: the range test and the amount in tokens
ComputeSellAmount ==
  /\ pc = "sell_amount"
  /\ IF InvalidPercentage(loc.sell_percentage)
     THEN pc' = "sell_failed" /\ UNCHANGED loc
     ELSE /\ loc' = [loc EXCEPT !.sell_amount =
                       Some(SellAmountOf(loc.balance[1], loc.sell_percentage))]
          /\ pc' = "approve_token"
  /\ UNCHANGED <<lines, wallets, i, result, results, success_count,
                 failed_count, available_images, used_images,
                 blockchain_manager, access_token, calls, chain>>

\* blockchain_utils.py:880-881: int(amount * (10 ** decimals)), the amount
\* approve_token grants to the platform contract
ApproveAmountWei(amount, decimals) ==
  Trunc(FloatMul(amount, Float(TenTo(decimals))))

\* blockchain_utils.py:832-932: approve_token converts the amount, sends the
\* approval and waits for it; any exception yields a failure result, on
\* which sell_token_complete (788-794) returns without calling _sell_token
ApproveToken ==
  /\ pc = "approve_token"
  /\ \E out \in StageOutcomes :
       IF out = "ok"
       THEN /\ loc' = [loc EXCEPT !.approve_wei =
                         Some(ApproveAmountWei(loc.sell_amount[1],
                                               loc.decimals))]
            /\ pc' = "sell_wei"
       ELSE pc' = "sell_failed" /\ UNCHANGED loc
  /\ UNCHANGED <<lines, wallets, i, result, results, success_count,
                 failed_count, available_images, used_images,
                 blockchain_manager, access_token, calls, chain>>

\* blockchain_utils.py:675-683: _sell_token converts the amount to base
\* units for sellToken
SellAmountToWei ==
  /\ pc = "sell_wei"
  /\ loc' = [loc EXCEPT !.amount_wei =
               Some(AmountWei(loc.sell_amount[1], loc.decimals))]
  /\ pc' = "sell_built"
  /\ UNCHANGED <<lines, wallets, i, result, results, success_count,
                 failed_count, available_images, used_images,
                 blockchain_manager, access_token, calls, chain>>

\* sell_token_complete(token_address, sell_percentage) on a tradable token
InitAmount ==
  /\ lines = <<>>
  /\ wallets = <<>>
  /\ i = 1
  /\ pc = "get_token_balance"
  /\ result = NewResult(0, "")
  /\ results = <<>>
  /\ success_count = 0
  /\ failed_count = 0
  /\ available_images = {}
  /\ used_images = {}
  /\ blockchain_manager = TRUE
  /\ access_token = None
  /\ \E tokens \in TokenCounts, dust \in Dust, decimals \in TokenDecimals,
        sell_percentage \in Percentages :
       loc = [balance_wei |-> BigAdd(BigMul(FromInt(tokens), TenTo(decimals)),
                                     FromInt(dust)),
              decimals |-> decimals, sell_percentage |-> sell_percentage,
              balance |-> None, sell_amount |-> None, approve_wei |-> None,
              amount_wei |-> None]
  /\ calls = <<>>
  /\ chain = NoTransactions

NextAmount ==
  GetTokenBalance \/ ComputeSellAmount \/ ApproveToken \/ SellAmountToWei

SpecAmount == InitAmount /\ [][NextAmount]_vars

\* -----------------------------------------------------------------
\* The API client (four_meme_bot.py): one FourMemeBot object whose methods
\* are called in any order.  access_token is the stored token; loc holds the
\* session's Content-Type header and the record of the last call: its name,
\* the requests it sent with the answers it read, how it ended and the
\* token and header it started from.
\* -----------------------------------------------------------------
MaxApiCalls == 3

\* the decimal digits of a natural number
RECURSIVE Decimal(_)
Decimal(n) ==
  IF n < 10
  THEN SubSeq("0123456789", n + 1, n + 1)
  ELSE Decimal(n \div 10) \o SubSeq("0123456789", (n % 10) + 1, (n % 10) + 1)

\* a JSON value: k is its Python type, n the number of an int or of a float
\* with no fraction, s the text of a str
Json(k, n, s) == [k |-> k, n |-> n, s |-> s]

\* str(value) of Python
PyStr(value) ==
  CASE value.k = "str" -> value.s
    [] value.k = "int" -> Decimal(value.n)
    [] value.k = "float" -> Decimal(value.n) \o ".0"
    [] OTHER -> "None"

\* the code test that compares numbers
ApiCodeOk_Numeric(data) ==
  \/ data.code.k \in {"int", "float"} /\ data.code.n = 0
  \/ data.code.k = "str" /\ data.code.s \in {"0", "00"}

\* four_meme_bot.py:83, 154, 199, 290: str(data.get("code")) == "0"
ApiCodeOk(data) == PyStr(data.code) = "0"

\* the code field of a response body (none: the field is missing or null)
ApiCodes ==
  {Json("int", 0, ""), Json("int", 1, ""), Json("int", 10, ""),
   Json("str", 0, "0"), Json("str", 0, "00"), Json("float", 0, ""),
   Json("none", 0, "")}

\* the data field of a response body
ApiData == {Json("str", 0, "value"), Json("str", 0, ""), Json("none", 0, "")}

\* what a request meets: session.post raises, raise_for_status raises, or
\* the body is read
ApiResponses ==
  {[transport |-> t, code |-> Json("none", 0, ""), data |-> Json("none", 0, "")] :
     t \in {"raise", "http_error"}}
  \cup {[transport |-> "ok", code |-> c, data |-> d] :
          c \in ApiCodes, d \in ApiData}

\* response.raise_for_status() passed and the code test holds
ApiAccepted(resp) == resp.transport = "ok" /\ ApiCodeOk(resp)

\* a request of the last call and the answer it met
Sent(kind, resp) == [kind |-> kind, resp |-> resp]

JsonContentType == Some("application/json")

\* `not self.access_token` (four_meme_bot.py:175, 223)
NoAccessToken(token) == token = None \/ token = Some("")

\* data.get("data") kept as the token
TokenOf(data) == IF data.k = "str" THEN Some(data.s) ELSE None

\* the record of a call that starts now
ApiCall(op) ==
  [content_type |-> loc.content_type, op |-> op, sent |-> <<>>,
   outcome |-> "raised", token_before |-> access_token,
   content_type_before |-> loc.content_type, n |-> loc.n + 1]

ApiFrame ==
  UNCHANGED <<lines, wallets, i, pc, result, results, success_count,
              failed_count, available_images, used_images,
              blockchain_manager, calls, chain>>

\* four_meme_bot.py:63-92
generate_nonce ==
  /\ loc.n < MaxApiCalls
  /\ \E resp \in ApiResponses :
       loc' = [ApiCall("generate_nonce") EXCEPT
                 !.sent = <<Sent("nonce", resp)>>,
                 !.outcome = IF ApiAccepted(resp) THEN "returned" ELSE "raised"]
  /\ UNCHANGED access_token
  /\ ApiFrame

\* four_meme_bot.py:120-163: generate_nonce, sign_message, then the login
\* request; the token is stored when the answer is accepted
login ==
  /\ loc.n < MaxApiCalls
  /\ \E nonce \in ApiResponses, signed \in BOOLEAN, resp \in ApiResponses :
       IF ~ApiAccepted(nonce)
       THEN /\ loc' = [ApiCall("login") EXCEPT
                         !.sent = <<Sent("nonce", nonce)>>]
            /\ UNCHANGED access_token
       ELSE IF ~signed
       THEN /\ loc' = [ApiCall("login") EXCEPT
                         !.sent = <<Sent("nonce", nonce)>>]
            /\ UNCHANGED access_token
       ELSE IF ~ApiAccepted(resp)
       THEN /\ loc' = [ApiCall("login") EXCEPT
                         !.sent = <<Sent("nonce", nonce), Sent("login", resp)>>]
            /\ UNCHANGED access_token
       ELSE /\ loc' = [ApiCall("login") EXCEPT
                         !.sent = <<Sent("nonce", nonce), Sent("login", resp)>>,
                         !.outcome = "returned"]
            /\ access_token' = TokenOf(resp.data)
  /\ ApiFrame

\* four_meme_bot.py:165-211: the token test, the file, the header removed
\* for the multipart request and put back after session.post returned
upload_image ==
  /\ loc.n < MaxApiCalls
  /\ \E readable \in BOOLEAN, resp \in ApiResponses :
       IF NoAccessToken(access_token) \/ ~readable
       THEN loc' = ApiCall("upload_image")
       ELSE loc' = [ApiCall("upload_image") EXCEPT
                      !.sent = <<Sent("upload", resp)>>,
                      !.content_type =
                         IF resp.transport = "raise" THEN None
                         ELSE loc.content_type,
                      !.outcome =
                         IF ApiAccepted(resp) THEN "returned" ELSE "raised"]
  /\ UNCHANGED access_token
  /\ ApiFrame

\* four_meme_bot.py:213-301
create_token ==
  /\ loc.n < MaxApiCalls
  /\ \E resp \in ApiResponses :
       IF NoAccessToken(access_token)
       THEN loc' = ApiCall("create_token")
       ELSE loc' = [ApiCall("create_token") EXCEPT
                      !.sent = <<Sent("create", resp)>>,
                      !.outcome =
                         IF ApiAccepted(resp) THEN "returned" ELSE "raised"]
  /\ UNCHANGED access_token
  /\ ApiFrame

\* four_meme_bot.py:32-61: FourMemeBot.__init__
InitApi ==
  /\ lines = <<>>
  /\ wallets = <<>>
  /\ i = 1
  /\ pc = "api"
  /\ result = NewResult(0, "")
  /\ results = <<>>
  /\ success_count = 0
  /\ failed_count = 0
  /\ available_images = {}
  /\ used_images = {}
  /\ blockchain_manager = FALSE
  /\ access_token = None
  /\ loc = [content_type |-> JsonContentType, op |-> "none", sent |-> <<>>,
            outcome |-> "none", token_before |-> None,
            content_type_before |-> JsonContentType, n |-> 0]
  /\ calls = <<>>
  /\ chain = NoTransactions

NextApi == generate_nonce \/ login \/ upload_image \/ create_token

SpecApi == InitApi /\ [][NextApi]_vars

\* -----------------------------------------------------------------
\* run_batch as a loop over the wallets, with its pause between wallets and
\* the image pool; process_wallet is one step with the outcomes that matter
\* to the loop.  calls is the log of the whole batch here: the start of
\* each process_wallet, each result appended and each sleep.
\* -----------------------------------------------------------------
\* longest wallet file of this specification
MaxRunWallets == 3
\* largest image pool of this specification
MaxPool == 2

\* an entry of the batch log
Event(op, wallet_num) == [op |-> op, wallet_num |-> wallet_num]

\* the delay_between_wallets argument of run_batch
Delays == {-1, 0, 5}

\* how process_wallet ends: before the image is chosen (no balance), after
\* it with a failed creation, or completed
WalletOutcomes == {"no_balance", "create_failed", "completed"}

\* the pause follows every wallet, the last one too
ShouldDelay_AfterEach(wallet_num, total, delay) == delay > 0

\* batch_runner.py:372
ShouldDelay(wallet_num, total, delay) == wallet_num < total /\ delay > 0

\* batch_runner.py:237-352: process_wallet(wallet_info, i, len(wallets)); the
\* image is chosen (278) after the balance check passed
ProcessWallet ==
  /\ pc = "wallet"
  /\ calls' = Append(calls, Event("process_wallet", i))
  /\ \E out \in WalletOutcomes :
       LET fresh == NewResult(i, wallets[i].address)
           checked == [fresh EXCEPT !.steps_completed = <<"balance_check">>]
       IN IF out = "no_balance"
          THEN /\ Goto(Raised(fresh, <<"insufficient_balance">>))
               /\ UNCHANGED <<used_images, loc>>
          ELSE \E image \in IF available_images = {} THEN {None}
                            ELSE {Some(img) : img \in
                                    AvailableUnused(available_images,
                                                    used_images)} :
                 /\ IF image = None
                    THEN UNCHANGED <<used_images, loc>>
                    ELSE /\ used_images' =
                              UsedAfterReset(available_images, used_images)
                                \cup {image[1]}
                         /\ loc' = [loc EXCEPT
                                      !.selections = Append(@, image[1])]
                 /\ IF out = "create_failed"
                    THEN Goto(Raised(checked, <<"token_creation_failed">>))
                    ELSE Goto(Completed(
                           [checked EXCEPT
                              !.token_address = Some("0xtoken"),
                              !.image_used =
                                 IF image # None THEN image ELSE Some("None"),
                              !.create_tx = Some("0xcreate"),
                              !.steps_completed =
                                 <<"balance_check", "token_created">>]))
  /\ UNCHANGED <<lines, wallets, i, results, available_images,
                 blockchain_manager, access_token, chain>>

\* batch_runner.py:367-372: the result is appended; then the pause, the
\* next wallet or the report
AppendResult ==
  /\ pc = "returned"
  /\ results' = Append(results, result)
  /\ calls' = Append(calls, Event("append", i))
  /\ IF ShouldDelay(i, Len(wallets), loc.delay_between_wallets)
     THEN pc' = "delay" /\ i' = i
     ELSE IF i < Len(wallets)
     THEN pc' = "wallet" /\ i' = i + 1
     ELSE pc' = "report" /\ i' = i
  /\ UNCHANGED <<lines, wallets, result, success_count, failed_count,
                 available_images, used_images, blockchain_manager,
                 access_token, loc, chain>>

\* batch_runner.py:373-374 and 366: time.sleep(delay_between_wallets), then
\* the next pass of the loop
WalletDelay ==
  /\ pc = "delay"
  /\ calls' = Append(calls, Event("sleep", i))
  /\ IF i < Len(wallets)
     THEN pc' = "wallet" /\ i' = i + 1
     ELSE pc' = "report" /\ i' = i
  /\ UNCHANGED <<lines, wallets, result, results, success_count,
                 failed_count, available_images, used_images,
                 blockchain_manager, access_token, loc, chain>>

\* wallet files of one to MaxRunWallets valid lines
RunFiles ==
  UNION {[1..n -> {Line("data", 4, "0xA", TRUE, NumField(0), NumField(0))}] :
           n \in 0..MaxRunWallets}

\* batch_runner.py:38-48 and 354: the runner as constructed, with the images
\* of its folder, and run_batch(file_path, delay_between_wallets) called
InitRun ==
  /\ lines \in RunFiles
  /\ wallets = <<>>
  /\ i = 1
  /\ pc = "load"
  /\ result = NewResult(0, "")
  /\ results = <<>>
  /\ success_count = 0
  /\ failed_count = 0
  /\ available_images \in {{ImageFiles[k] : k \in 1..n} : n \in 0..MaxPool}
  /\ used_images = {}
  /\ blockchain_manager = FALSE
  /\ access_token = None
  /\ \E delay \in Delays :
       loc = [delay_between_wallets |-> delay, selections |-> <<>>]
  /\ calls = <<>>
  /\ chain = NoTransactions

NextRun ==
  \/ LoadWallets
  \/ ProcessWallet
  \/ AppendResult
  \/ WalletDelay
  \/ GenerateReport

SpecRun == InitRun /\ [][NextRun]_vars

\* -----------------------------------------------------------------
\* The staged test driver (tests/main_test.py): main runs the stages in
\* order and gates each one on what the earlier ones returned.  loc holds
\* the locals of main, the stages that ran (ran) and test_results in
\* insertion order; the summary printed at the end is test_results.
\* -----------------------------------------------------------------
\* main_test.py:409: test_results = {}
NoTestResults == <<>>

\* test_results[name] = success; note is the way the stage ended, as the
\* message it printed tells
Record(l, name, success, note) ==
  [l EXCEPT !.test_results = Append(@, [name |-> name, success |-> success]),
            !.ran = Append(@, [name |-> name, note |-> note])]

\* `not access_token` of main_test.py:427
NoLogin(token) == token = None \/ token = Some("")

\* the sell stage is gated on the deployment only
RunsSell_AfterDeployment(l) == l.token_address # None

\* main_test.py:463
RunsSell(l) ==
  /\ l.token_address # None
  /\ l.purchase_result # None
  /\ l.purchase_result[1].success

\* main_test.py:452
RunsPurchase(l) ==
  /\ l.token_address # None
  /\ l.deployment_result # None
  /\ l.deployment_result[1].success

\* main_test.py:443
RunsDeployment(l) ==
  /\ l.blockchain_manager
  /\ ~NoLogin(l.access_token)
  /\ l.api_result

\* the stage main goes to after the purchase stage, the deployment stage,
\* the API stages and the login stage
AfterPurchaseStage(l) == IF RunsSell(l) THEN "sell" ELSE "summary"
AfterDeploymentStage(l) ==
  IF RunsPurchase(l) THEN "purchase" ELSE AfterPurchaseStage(l)
AfterApiStages(l) ==
  IF RunsDeployment(l) THEN "deployment" ELSE AfterDeploymentStage(l)
AfterLoginStage(l) ==
  IF NoLogin(l.access_token) THEN AfterApiStages(l) ELSE "upload"

DriverFrame ==
  UNCHANGED <<lines, wallets, i, result, results, success_count,
              failed_count, available_images, used_images,
              blockchain_manager, access_token, calls, chain>>

\* main_test.py:411-417 with 44-67: stage 1 returns the bot, or None when
\* the signing test raised; main returns when no bot was built
test_basic_functionality ==
  /\ pc = "basic"
  /\ \E note \in {"signed", "raised"} :
       /\ loc' = Record([loc EXCEPT !.bot = note = "signed"],
                        "basic", note = "signed", note)
       /\ pc' = IF note = "signed" THEN "chain" ELSE "ended"
  /\ DriverFrame

\* main_test.py:419-421 with 69-100: stage 2 returns the manager (a low
\* balance only warns), or None when connecting or a read raised
test_blockchain_connection ==
  /\ pc = "chain"
  /\ \E note \in {"connected", "low_balance", "raised"} :
       loc' = Record([loc EXCEPT !.blockchain_manager = note # "raised"],
                     "chain", note # "raised", note)
  /\ pc' = "login"
  /\ DriverFrame

\* main_test.py:102-122: what test_api_login returns
LoginToken(note) ==
  CASE note = "token" -> Some("token")
    [] note = "empty_token" -> Some("")
    [] OTHER -> None

\* main_test.py:423-430: stage 3
test_api_login ==
  /\ pc = "login"
  /\ \E note \in {"nonce_failed", "login_failed", "empty_token", "token"} :
       /\ loc' = Record([loc EXCEPT !.access_token = LoginToken(note)],
                        "login", LoginToken(note) # None, note)
       /\ pc' = AfterLoginStage(loc')
  /\ DriverFrame

\* main_test.py:432-434 with 124-163: stage 4 returns the URL, or None
\* when no test image could be made or the upload raised
test_image_upload ==
  /\ pc = "upload"
  /\ \E note \in {"no_image", "upload_failed", "uploaded"} :
       loc' = Record([loc EXCEPT !.image_url =
                               IF note = "uploaded" THEN Some("url")
                               ELSE None],
                     "upload", note = "uploaded", note)
  /\ pc' = "creation"
  /\ DriverFrame

\* main_test.py:436-438 with 165-208: stage 5 returns the dict of
\* bot.create_token or None
test_token_creation_api ==
  /\ pc = "creation"
  /\ \E note \in {"created", "raised"} :
       /\ loc' = Record([loc EXCEPT !.api_result = note = "created"],
                        "creation", note = "created", note)
       /\ pc' = AfterApiStages(loc')
  /\ DriverFrame

\* main_test.py:210-290: what test_full_deployment returns: None when the
\* user declined, the balance is low or a call raised; else the result of
\* create_token_complete, which succeeds without an address when the bot
\* has no blockchain manager (four_meme_bot.py:386-390)
DeploymentResult(note) ==
  CASE note = "failed" -> Some([success |-> FALSE, token_address |-> None])
    [] note = "no_address" -> Some([success |-> TRUE, token_address |-> None])
    [] note = "deployed" ->
         Some([success |-> TRUE, token_address |-> Some("0xtoken")])
    [] OTHER -> None

\* main_test.py:440-448: stage 6
test_full_deployment ==
  /\ pc = "deployment"
  /\ \E note \in {"declined", "low_balance", "raised", "failed",
                  "no_address", "deployed"} :
       LET deployment_result == DeploymentResult(note)
           success == deployment_result # None /\ deployment_result[1].success
       IN /\ loc' = Record([loc EXCEPT
                              !.deployment_result = deployment_result,
                              !.token_address =
                                 IF success
                                 THEN deployment_result[1].token_address
                                 ELSE None],
                           "deployment", success, note)
          /\ pc' = AfterDeploymentStage(loc')
  /\ DriverFrame

\* main_test.py:292-340 and 342-385: test_token_purchase and
\* test_token_sell return the result of a successful operation and None in
\* every other case
StageResult(note) ==
  IF note \in {"bought", "sold"} THEN Some([success |-> TRUE]) ELSE None

\* main_test.py:450-460: stage 7; FourMemeBot.__init__ catches the failure
\* of its blockchain manager (four_meme_bot.py:55-61) and does not raise
test_token_purchase ==
  /\ pc = "purchase"
  /\ \E note \in {"low_balance", "bad_format", "invalid_amount",
                  "buy_failed", "raised", "bought"} :
       /\ loc' = Record([loc EXCEPT !.purchase_result = StageResult(note)],
                        "purchase", StageResult(note) # None, note)
       /\ pc' = AfterPurchaseStage(loc')
  /\ DriverFrame

\* main_test.py:462-471: stage 8
test_token_sell ==
  /\ pc = "sell"
  /\ \E note \in {"no_tokens", "bad_format", "invalid_percentage",
                  "sell_failed", "raised", "sold"} :
       loc' = Record(loc, "sell", StageResult(note) # None, note)
  /\ pc' = "summary"
  /\ DriverFrame

\* main_test.py:473-493: the summary lists test_results
Summary ==
  /\ pc = "summary"
  /\ loc' = [loc EXCEPT !.summary = Some(loc.test_results)]
  /\ pc' = "done"
  /\ DriverFrame

\* main_test.py:387-409: the credentials were given and confirmed
InitDriver ==
  /\ lines = <<>>
  /\ wallets = <<>>
  /\ i = 1
  /\ pc = "basic"
  /\ result = NewResult(0, "")
  /\ results = <<>>
  /\ success_count = 0
  /\ failed_count = 0
  /\ available_images = {}
  /\ used_images = {}
  /\ blockchain_manager = FALSE
  /\ access_token = None
  /\ loc = [bot |-> FALSE, blockchain_manager |-> FALSE,
            access_token |-> None, image_url |-> None, api_result |-> FALSE,
            deployment_result |-> None, token_address |-> None,
            purchase_result |-> None, test_results |-> NoTestResults,
            ran |-> <<>>, summary |-> None]
  /\ calls = <<>>
  /\ chain = NoTransactions

NextDriver ==
  \/ test_basic_functionality
  \/ test_blockchain_connection
  \/ test_api_login
  \/ test_image_upload
  \/ test_token_creation_api
  \/ test_full_deployment
  \/ test_token_purchase
  \/ test_token_sell
  \/ Summary

SpecDriver == InitDriver /\ [][NextDriver]_vars

\* =================================================================
\* Properties
\* =================================================================
\* a wallet's workflow run is under way or has just returned: calls, loc and
\* result belong to wallets[i]
InRun == pc \notin {"load", "wallet", "report", "done"}

\* process_wallet has returned the result of wallets[i]
Returned == pc = "returned"

Made(c) == \E k \in DOMAIN calls : calls[k] = c

\* positions in calls of the attempts to build, sign and broadcast a
\* transaction of this kind, and of the broadcasts that went out
Attempts(kind) ==
  {k \in DOMAIN calls : calls[k].op = "send" /\ calls[k].kind = kind}
Broadcasts(kind) ==
  {k \in DOMAIN calls : calls[k] = Call("send", kind, "sent")}

OkAnswers == {"ok", "sent", "confirmed", "TRADING"}
AllCallsSucceeded == \A k \in DOMAIN calls : calls[k].out \in OkAnswers

\* the creation transaction was confirmed and its TokenCreate event decoded
CreationSucceeded == Made(Call("parse", "create", "ok"))

HasStep(res, step) ==
  \E k \in DOMAIN res.steps_completed : res.steps_completed[k] = step

\* the sell field of the file line wallets[i] was loaded from
SellFieldOf(w) == lines[w.line_num].sell
FieldOutOfRange(f) == f.t = "num" /\ (f.v < 0 \/ f.v > 100)

\* C1: for a wallet with purchaseAmount > 0 whose creation transaction
\* succeeded, at most one buy transaction is ever submitted in the run, each
\* buy follows the creation transaction, and a run in which every call
\* succeeded submitted exactly one.
C1_ExactlyOneBuyPerCreation ==
  (InRun /\ wallets[i].purchase_amount > 0 /\ CreationSucceeded) =>
    /\ Cardinality(Broadcasts("buy")) <= 1
    /\ \A b \in Broadcasts("buy") : \A c \in Broadcasts("create") : c < b
    /\ (Returned /\ AllCallsSucceeded) => Cardinality(Broadcasts("buy")) = 1

\* C2: for a wallet with purchaseAmount = 0 no buy transaction is built or
\* submitted at any point of the wallet's run.
C2_NoBuyWithoutPurchaseAmount ==
  (InRun /\ wallets[i].purchase_amount = 0) => Attempts("buy") = {}

\* C2 witness: a wallet with purchaseAmount = 0 created its token and
\* returned, the buy step having been passed over.
C2_Witness ==
  /\ Returned
  /\ wallets[i].purchase_amount = 0
  /\ Broadcasts("create") # {}
  /\ HasStep(result, "token_created")

\* C3: once the creation transaction is confirmed and the token address
\* parsed, the reported result carries the token address, the creation
\* transaction hash and the token_created marker, whatever fails afterwards.
C3_CreationOutcomeKept ==
  (Returned /\ CreationSucceeded) =>
    /\ result.token_address = Some("0xtoken")
    /\ result.create_tx = Some("0xcreate")
    /\ HasStep(result, "token_created")

\* a call of the creation, buy or sell step that did not succeed
StepCallFailed ==
  \E k \in DOMAIN calls :
    /\ calls[k].op \in {"http", "file", "send", "wait", "parse"}
         \/ (calls[k].op = "rpc" /\ calls[k].kind \in {"status", "token_balance"})
    /\ calls[k].out \notin OkAnswers

\* C4: if a call of an executed creation, buy or sell step failed, the
\* reported result has success = false and a non-empty error.
C4_FailedStepFailsWallet ==
  (Returned /\ StepCallFailed) => (~result.success /\ result.error # None)

\* C5: when the creation receipt holds no decodable TokenCreate event, the
\* parsed token address is None, no buy transaction is attempted, and the
\* workflow returns (rather than raising) the failure with the
\* missing-token-address error.
C5_MissingEventFailsCreation ==
  (InRun /\ Made(Call("parse", "create", "no_event"))) =>
    /\ loc.token_address = None
    /\ Attempts("buy") = {}
    /\ Returned
    /\ ~result.success
    /\ result.token_address = None
    /\ result.error = <<"token_creation_failed", "deploy_failed", "no_token_address">>

\* C5 witness: a run whose confirmed creation receipt had no event returned.
C5_Witness ==
  /\ Returned
  /\ Made(Call("wait", "create", "confirmed"))
  /\ Made(Call("parse", "create", "no_event"))

\* C6: a sell flow called with a percentage p <= 0 or p > 100 never attempts
\* an approval or a sell transaction and returns a failure.
C6_InvalidPercentageRejected ==
  (loc.sell_percentage <= 0 \/ loc.sell_percentage > 100) =>
    /\ Attempts("approve") = {}
    /\ Attempts("sell") = {}
    /\ pc \in {"sell_token", "sell_status", "sell_balance", "sell_return"}
    /\ pc = "sell_return" => ~loc.sell_result.success

\* C6 witness: a call with p > 100 on a tradable token with a positive
\* balance was rejected at the percentage test.
C6_Witness ==
  /\ pc = "sell_return"
  /\ loc.sell_percentage > 100
  /\ Made(Call("rpc", "token_balance", "ok"))
  /\ loc.sell_result.error = <<"invalid_percentage">>

RECURSIVE Kept(_, _)
Kept(ls, n) ==
  IF n = 0 THEN 0
  ELSE Kept(ls, n - 1) +
       (IF ls[n].kind = "data" /\ ls[n].nparts >= 2 /\ ls[n].key_ok THEN 1 ELSE 0)

C8_LowBalanceStopsWallet ==
  (InRun /\ (loc.wallet_balance = None \/ loc.wallet_balance[1] < 10)) =>
    /\ Returned
    /\ ~result.success
    /\ result.error # None
    /\ \A k \in DOMAIN calls : calls[k].op = "rpc"
    /\ \A k \in DOMAIN result.steps_completed :
         result.steps_completed[k] = "balance_check"

\* C8 witness: a wallet whose balance was read and found below the floor.
C8_Witness ==
  /\ Returned
  /\ loc.wallet_balance # None
  /\ loc.wallet_balance[1] < 10
  /\ result.error = <<"insufficient_balance">>

\* C9: when the creation API answers with a code other than "0", the run
\* has returned a failure without attempting any transaction, and the
\* result has create_tx = None and token_address = None.
C9_RejectedCreationAborts ==
  (InRun /\ Made(Call("http", "create", "rejected"))) =>
    /\ Returned
    /\ ~result.success
    /\ result.error # None
    /\ result.create_tx = None
    /\ result.token_address = None
    /\ \A k \in DOMAIN calls : calls[k].op \notin {"send", "wait"}

\* C9 witness: a logged-in wallet whose creation request was rejected.
C9_Witness ==
  /\ Returned
  /\ Made(Call("http", "login", "ok"))
  /\ Made(Call("http", "create", "rejected"))

\* C10: a wallet with balance >= 0.01, purchaseAmount > 0 and sellPercentage
\* in (0,100] for which every external call succeeded (tradable token,
\* positive token balance) returns success with steps balance_check,
\* token_created, token_bought, token_sold in this order.
C10_FullRunCompletesAllSteps ==
  (/\ Returned
   /\ wallets[i].purchase_amount > 0
   /\ wallets[i].sell_percentage > 0
   /\ wallets[i].sell_percentage <= 100
   /\ loc.wallet_balance # None
   /\ loc.wallet_balance[1] >= 10
   /\ AllCallsSucceeded) =>
    /\ result.success
    /\ result.steps_completed =
         <<"balance_check", "token_created", "token_bought", "token_sold">>

\* C10 witness: such a run returned, having created, bought and sold.
C10_Witness ==
  /\ Returned
  /\ wallets[i].purchase_amount > 0
  /\ wallets[i].sell_percentage > 0
  /\ AllCallsSucceeded
  /\ Broadcasts("create") # {}
  /\ Broadcasts("buy") # {}
  /\ Broadcasts("sell") # {}
  /\ result.success

\* run_batch has left its loop over the loaded records
Finished == pc \in {"report", "done"} /\ wallets # <<>>

\* C11: every entry of results is the result of the wallet record at the
\* same position (wallet_num k, the record's address), the wallet in hand is
\* always the one after the last recorded result, so that each record is
\* processed once and in file order, and when run_batch has left its loop
\* results holds one entry per loaded record, failed or not.
C11_EveryWalletReported ==
  pc # "load" =>
    /\ Len(results) <= Len(wallets)
    /\ \A k \in DOMAIN results :
         /\ results[k].wallet_num = k
         /\ results[k].address = wallets[k].address
    /\ \A k \in DOMAIN wallets :
         \A j \in DOMAIN wallets : j < k => wallets[j].line_num < wallets[k].line_num
    /\ (pc \notin {"report", "done"}) => i = Len(results) + 1
    /\ pc \notin {"wallet", "report", "done", "interrupted"} =>
         (result.wallet_num = i /\ result.address = wallets[i].address)
    /\ Finished => Len(results) = Len(wallets)

\* C11 witness: a batch of two wallets finished, the first wallet having
\* failed and the second succeeded.
C11_Witness ==
  /\ pc = "done"
  /\ Len(wallets) = 2
  /\ Len(results) = 2
  /\ ~results[1].success
  /\ results[2].success

\* C12: once an interrupt has reached the blocked thread, the report is
\* eventually emitted (generate_report runs and run_batch is done).
C12_InterruptStillReports == (pc = "interrupted") ~> (pc = "done")

\* a call that broadcast a transaction or waited for its receipt and failed
TxCallFailed(c) == c.op \in {"send", "wait"} /\ c.out \notin OkAnswers

\* C13: within a wallet's run, once the broadcast or the confirmation of a
\* creation, buy, approval or sell transaction has failed, no transaction
\* of the same step is built or sent again, and every wait for a receipt
\* directly follows the broadcast it waits for, so that a broadcast is
\* waited for at most once.
C13_NoResubmission ==
  InRun =>
    \A j \in DOMAIN calls :
      /\ TxCallFailed(calls[j]) =>
           \A k \in DOMAIN calls :
             (calls[k].op = "send" /\ calls[k].kind = calls[j].kind) => k <= j
      /\ calls[j].op = "wait" =>
           (j > 1 /\ calls[j - 1] = Call("send", calls[j].kind, "sent"))

\* C13 witness: a run whose buy transaction was broadcast and reverted has
\* returned.
C13_Witness ==
  /\ Returned
  /\ Made(Call("send", "buy", "sent"))
  /\ Made(Call("wait", "buy", "reverted"))

\* positions in calls of the HTTP requests to an endpoint
Requests(kind) ==
  {k \in DOMAIN calls : calls[k].op = "http" /\ calls[k].kind = kind}

\* C14: within one run of create_token_complete the login endpoint, the
\* upload endpoint and the creation endpoint each receive at most one HTTP
\* request, whether the request succeeds or fails.
C14_OneRequestPerEndpoint ==
  InRun =>
    \A j \in DOMAIN calls :
      (calls[j].op = "http" /\ calls[j].kind \in {"login", "upload", "create"})
        => Requests(calls[j].kind) = {j}

\* C14 witness: a run whose upload request failed with an HTTP error has
\* returned a failure.
C14_Witness ==
  /\ Returned
  /\ Made(Call("http", "login", "ok"))
  /\ Made(Call("http", "upload", "http_error"))
  /\ ~result.success

\* the transactions the current run handed to the node, in order
RunTxs == loc.txs

\* C16: every creation transaction of a run is built with value 0 and names
\* no token, whatever purchaseAmount is; only buy transactions carry a
\* value, which is the wallet's purchase amount, and each buy follows the
\* run's confirmed creation and names the token address parsed from the
\* creation receipt.
C16_CreationCarriesNoValue ==
  InRun =>
    \A k \in DOMAIN RunTxs :
      LET tx == RunTxs[k]
      IN /\ tx.kind = "create" => (tx.value = 0 /\ tx.token = None)
         /\ tx.value # 0 => tx.kind = "buy"
         /\ tx.kind = "buy" =>
              /\ tx.value = wallets[i].purchase_amount
              /\ CreationSucceeded
              /\ tx.token = parse_token_address_from_receipt(TRUE)
              /\ \E j \in DOMAIN RunTxs :
                   j < k /\ RunTxs[j].kind = "create" /\ RunTxs[j].accepted

\* C16 witness: a wallet with a purchase amount has returned after a
\* creation transaction with value 0 and a buy transaction with the
\* purchase amount were both accepted by the node.
C16_Witness ==
  /\ Returned
  /\ wallets[i].purchase_amount > 0
  /\ \E j \in DOMAIN RunTxs : \E k \in DOMAIN RunTxs :
       /\ RunTxs[j].kind = "create" /\ RunTxs[j].accepted
       /\ RunTxs[j].value = 0
       /\ RunTxs[k].kind = "buy" /\ RunTxs[k].accepted
       /\ RunTxs[k].value = wallets[i].purchase_amount

\* C17: over the whole batch no two transactions accepted by the node from
\* the same address carry the same nonce.
C17_NoncesNeverReused ==
  \A a \in Addresses :
    \A j \in DOMAIN chain.accepted[a] : \A k \in DOMAIN chain.accepted[a] :
      j < k => chain.accepted[a][j] # chain.accepted[a][k]

\* the sell flow has returned a failure to process_wallet
SellFlowFailed ==
  /\ pc \in {"sell_return", "returned"}
  /\ ~loc.sell_result.success
  /\ loc.sell_result.error # None

\* C18: an approval or sell transaction is attempted only after the token's
\* status was read as TRADING; after a failed status read or a status of
\* COMPLETED, HALT, ADDING_LIQUIDITY or an unknown one, no approval and no
\* sell transaction is attempted and the sell flow returns a failure.
C18_OnlyTradingSells ==
  InRun =>
    \A k \in DOMAIN calls :
      /\ (calls[k].kind \in {"approve", "sell"} /\ calls[k].op = "send") =>
           \E j \in 1..(k - 1) : calls[j] = Call("rpc", "status", "TRADING")
      /\ (calls[k].kind = "status" /\ calls[k].out # "TRADING") =>
           /\ Attempts("approve") = {}
           /\ Attempts("sell") = {}
           /\ SellFlowFailed

\* C18 witness: the sell flow found the token halted and returned.
C18_Witness ==
  /\ pc = "sell_return"
  /\ Made(Call("rpc", "status", "HALT"))
  /\ loc.sell_result.error = <<"not_tradable", "HALT">>

\* C19: every attempt to build and send a sell transaction comes after the
\* approval transaction's confirmed receipt; when the token balance is zero
\* or unreadable, or the approval's broadcast or confirmation failed, no
\* sell transaction is attempted and the sell flow returns a failure.
C19_ApprovalBeforeSell ==
  InRun =>
    \A k \in DOMAIN calls :
      /\ (calls[k].kind = "sell" /\ calls[k].op = "send") =>
           \E j \in 1..(k - 1) : calls[j] = Call("wait", "approve", "confirmed")
      /\ (calls[k].kind = "token_balance" /\ calls[k].out \in {"zero", "error"}) =>
           /\ Attempts("approve") = {}
           /\ Attempts("sell") = {}
           /\ SellFlowFailed
      /\ (calls[k].kind = "approve" /\ TxCallFailed(calls[k])) =>
           /\ Attempts("sell") = {}
           /\ SellFlowFailed

\* C19 witness: the approval was broadcast and reverted, and the sell flow
\* returned.
C19_Witness ==
  /\ pc = "sell_return"
  /\ Made(Call("send", "approve", "sent"))
  /\ Made(Call("wait", "approve", "reverted"))

\* the calls of the transaction operations, and the attempts among them
IsTxCall(c) == c.op \in {"send", "wait"}
IsSend(c) == c.op = "send"

\* what the operations whose calls are tx_calls must have returned, in
\* order: an operation is a send followed, if the broadcast went out, by
\* the wait for its receipt; the last one may still be waiting
RECURSIVE Expected(_)
Expected(tx_calls) ==
  IF tx_calls = <<>> THEN <<>>
  ELSE IF tx_calls[1].out # "sent"
  THEN <<[kind |-> tx_calls[1].kind, success |-> FALSE]>>
         \o Expected(Tail(tx_calls))
  ELSE IF Len(tx_calls) = 1 THEN <<>>
  ELSE <<[kind |-> tx_calls[1].kind,
          success |-> tx_calls[2] = Call("wait", tx_calls[1].kind, "confirmed")]>>
         \o Expected(Tail(Tail(tx_calls)))

\* C20: every transaction operation that ran has returned a result (no
\* exception left it), and the result of the n-th one has success = true
\* exactly when its transaction was broadcast and the receipt wait gave a
\* receipt with status 1; after a broadcast error, a timeout or a reverted
\* receipt it has success = false and a non-empty error text.
C20_SuccessOnlyOnGoodReceipt ==
  InRun =>
    /\ [n \in DOMAIN loc.tx_results |->
          [kind |-> loc.tx_results[n].kind,
           success |-> loc.tx_results[n].success]]
         = Expected(SelectSeq(calls, IsTxCall))
    /\ \A n \in DOMAIN loc.tx_results :
         ~loc.tx_results[n].success =>
           (loc.tx_results[n].error # None /\ loc.tx_results[n].error # <<>>)
    /\ (Len(SelectSeq(calls, IsSend)) # Len(loc.tx_results)) =>
         (/\ Len(SelectSeq(calls, IsSend)) = Len(loc.tx_results) + 1
          /\ calls[Len(calls)].out = "sent")

\* C20 witness: a run has returned in which one operation succeeded, one
\* failed on a reverted receipt and one on a wait timeout.
C20_Witness ==
  /\ Returned
  /\ \E n \in DOMAIN loc.tx_results : loc.tx_results[n].success
  /\ \E n \in DOMAIN loc.tx_results : loc.tx_results[n].error = <<"reverted">>
  /\ \E n \in DOMAIN loc.tx_results : loc.tx_results[n].error = <<"timeout">>

\* positions in calls of the requests make_request sent
AttemptsMade == {k \in DOMAIN calls : calls[k].op = "http"}

\* C15: make_request sends a further request only after a GET that failed
\* on the transport (connection failure or timeout): a POST is sent at most
\* once and a request answered with an HTTP error status is not repeated.
C15_OnlyTransientGetRetried ==
  \A j \in AttemptsMade : \A k \in AttemptsMade :
    j < k => /\ calls[j].kind = "GET"
             /\ calls[j].out \in {"connection_error", "timeout"}

\* the step of the workflow an external call belongs to: 0 the balance
\* check, 1 login, 2 image upload, 3 creation request, 4 creation
\* transaction, 5 buy, 6 the settle pause, 7 the sell flow
StepRank(c) ==
  IF c.op = "rpc" /\ c.kind \in {"connect", "get_balance"} THEN 0
  ELSE IF c.op = "http" /\ c.kind \in {"nonce", "login"} THEN 1
  ELSE IF c.kind \in {"image", "upload"} THEN 2
  ELSE IF c.op = "http" THEN 3
  ELSE IF c.kind = "create" THEN 4
  ELSE IF c.kind = "buy" THEN 5
  ELSE IF c.op = "sleep" THEN 6
  ELSE 7

\* the call did not succeed
CallFailed(c) == c.out \notin OkAnswers

\* C21: the calls of a wallet's run come in the order login, image upload,
\* creation request, creation transaction, buy, sell flow, and no call of a
\* later step follows a failed call: a failed login is followed by no upload
\* and no creation request, a failed upload or creation request by no
\* transaction, a failed creation by no buy and no sell, and a failed buy by
\* no call of the sell flow.
C21_StepsGateEachOther ==
  InRun =>
    \A j \in DOMAIN calls : \A k \in DOMAIN calls :
      j < k =>
        /\ StepRank(calls[j]) <= StepRank(calls[k])
        /\ CallFailed(calls[j]) => StepRank(calls[k]) = StepRank(calls[j])

\* the call raised an exception in the operation that made it
Raises(c) ==
  /\ c.op \in {"http", "file", "send", "wait"}
  /\ c.out \in {"http_error", "rejected", "unreadable", "error",
                "send_error", "timeout", "reverted"}

\* the call at position k was made within create_token_complete: a request,
\* the creation transaction or the buy of create_token_on_chain
InCreation(k) ==
  \/ StepRank(calls[k]) \in 1..4
  \/ calls[k].kind = "buy" /\ \A j \in 1..(k - 2) : calls[j].kind # "buy"

\* C22: no exception raised by a request or a transaction operation leaves
\* the workflow: after one raised within create_token_complete,
\* deploy_to_blockchain or create_token_on_chain the creation has returned a
\* failure with its error text, after one raised within the sell flow
\* sell_token_complete returns a failure with its error text, and the result
\* process_wallet returns after any of them has success = false and an error
\* text.
C22_FailuresBecomeResults ==
  InRun =>
    \A k \in DOMAIN calls :
      Raises(calls[k]) =>
        /\ InCreation(k) =>
             /\ Returned
             /\ ~result.success
             /\ result.error # None
             /\ result.error[1] = "token_creation_failed"
             /\ Len(result.error) > 1
        /\ calls[k].kind \in {"approve", "sell"} =>
             /\ pc \in {"sell_return", "returned"}
             /\ ~loc.sell_result.success
             /\ loc.sell_result.error \notin {None}
        /\ Returned => (~result.success /\ result.error # None)

\* positions in calls at which the sell flow starts: its first call, or the
\* next call when sell_token has just been entered
SellStarts ==
  {k \in DOMAIN calls : calls[k].kind = "status"}
    \cup (IF pc = "sell_token" THEN {Len(calls) + 1} ELSE {})

\* C23: when the sell flow starts after a buy transaction of the run was
\* confirmed, the settle pause lies between the confirmation of that buy
\* and the start of the sell flow.
C23_SettleBeforeSell ==
  InRun =>
    \A k \in SellStarts :
      \A j \in 1..(k - 1) :
        calls[j] = Call("wait", "buy", "confirmed") =>
          \E s \in (j + 1)..(k - 1) : calls[s].op = "sleep"

\* C24: every createToken transaction of a run carries the authorization
\* the creation API issued to a request of this same run (of this wallet,
\* made before the transaction was built), and a run builds at most one
\* createToken transaction, so that no authorization is submitted twice or
\* by another wallet's run.
C24_FreshAuthorization ==
  (InRun /\ pc # "interrupted") =>
    \A n \in DOMAIN RunTxs :
      RunTxs[n].kind = "create" =>
        /\ \E k \in DOMAIN calls :
             /\ calls[k] = Call("http", "create", "ok")
             /\ RunTxs[n].create_arg = CreateArg(i, k)
             /\ \A j \in 1..k : calls[j].op # "send"
        /\ \A m \in DOMAIN RunTxs : RunTxs[m].kind = "create" => m = n

\* C24 witness: the second wallet of a batch has handed its createToken
\* transaction to the node, after the first wallet's creation was confirmed.
C24_Witness ==
  /\ i = 2
  /\ pc = "create_wait"
  /\ results[1].success
  /\ RunTxs[1].kind = "create"
  /\ RunTxs[1].accepted
  /\ RunTxs[1].create_arg = CreateArg(2, 5)

\* C25: run_batch eventually emits the report and returns.
C25_BatchTerminates == <>(pc = "done")

\* the lines the loader is specified to keep; whether the key belongs to
\* the declared address plays no part
Qualifies(line) == line.kind = "data" /\ line.nparts >= 2 /\ line.key_ok

QualifyingLines == {n \in DOMAIN lines : Qualifies(lines[n])}

\* C26: load_wallets_from_file returns, in file order, exactly one record
\* for each line that is non-blank, not a comment, has at least the address
\* and key fields and a well formed key; a missing or unparsable purchase
\* amount becomes 0, a missing or unparsable sell percentage becomes 100, a
\* key that belongs to another address does not exclude the record, and
\* skipped lines do not stop the lines after them from being read.
C26_LoaderRecords ==
  pc # "load" =>
    /\ {wallets[k].line_num : k \in DOMAIN wallets} = QualifyingLines
    /\ \A j \in DOMAIN wallets : \A k \in DOMAIN wallets :
         j < k => wallets[j].line_num < wallets[k].line_num
    /\ \A k \in DOMAIN wallets :
         LET line == lines[wallets[k].line_num] IN
           /\ wallets[k].address = line.address
           /\ (line.nparts < 3 \/ line.purchase.t # "num")
                => wallets[k].purchase_amount = 0
           /\ (line.nparts > 2 /\ line.purchase.t = "num")
                => wallets[k].purchase_amount = line.purchase.v
           /\ (line.nparts < 4 \/ line.sell.t # "num")
                => wallets[k].sell_percentage = 100
           /\ (line.nparts > 3 /\ line.sell.t = "num" /\ line.sell.v \in 0..100)
                => wallets[k].sell_percentage = line.sell.v

\* a file whose first line has a malformed key and whose second line, with
\* a key of another address and no optional fields, is loaded with defaults
C26_Witness ==
  /\ pc = "wallet"
  /\ Len(lines) = 2
  /\ lines[1].kind = "data" /\ ~lines[1].key_ok
  /\ lines[2].key_address # lines[2].address /\ lines[2].nparts = 2
  /\ wallets = <<[address |-> "0xA", purchase_amount |-> 0,
                  sell_percentage |-> 100, line_num |-> 2]>>

\* C27: every config generated by create_token_config passes
\* validate_token_config: bounded name, symbol and description lengths, a
\* label of the supported set, http(s) URLs; no error is returned for it.
C27_GeneratedConfigValid ==
  pc = "validated" => loc.errors = <<>>

\* C28: the imgUrl of the creation request is the uploaded image's URL when
\* an image path is supplied, else the caller's imgUrl when that is
\* non-empty, else the default logo URL; an imgUrl that is present but
\* empty or None is sent as the default URL.
C28_ImageResolution ==
  pc = "requested" =>
    /\ Truthy(loc.image_path) => loc.payload.imgUrl = loc.uploaded
    /\ (~Truthy(loc.image_path) /\ Truthy(loc.config_in.imgUrl))
         => loc.payload.imgUrl = loc.config_in.imgUrl
    /\ (~Truthy(loc.image_path) /\ ~Truthy(loc.config_in.imgUrl))
         => loc.payload.imgUrl = Str(DefaultImgUrl)

\* the stage of the transaction operation, read off the position in the
\* operation and its result
TxState ==
  IF pc \in {"tx_prepare", "tx_build"} THEN "New"
  ELSE IF pc = "tx_sign" THEN "Built"
  ELSE IF pc = "tx_send" THEN "Signed"
  ELSE IF pc = "tx_sent" THEN "Submitted"
  ELSE IF pc = "tx_wait" THEN "Pending"
  ELSE IF loc.tx_result[1].success THEN "Confirmed"
  ELSE IF loc.tx_result[1].error = <<"timeout">> THEN "TimedOut"
  ELSE "Failed"

TxStateNext ==
  IF pc' \in {"tx_prepare", "tx_build"} THEN "New"
  ELSE IF pc' = "tx_sign" THEN "Built"
  ELSE IF pc' = "tx_send" THEN "Signed"
  ELSE IF pc' = "tx_sent" THEN "Submitted"
  ELSE IF pc' = "tx_wait" THEN "Pending"
  ELSE IF loc'.tx_result[1].success THEN "Confirmed"
  ELSE IF loc'.tx_result[1].error = <<"timeout">> THEN "TimedOut"
  ELSE "Failed"

\* the order of the stages and the three ends of a pending transaction
StageOrder ==
  {<<"New", "Built">>, <<"Built", "Signed">>, <<"Signed", "Submitted">>,
   <<"Submitted", "Pending">>, <<"Pending", "Confirmed">>,
   <<"Pending", "Failed">>, <<"Pending", "TimedOut">>}

\* an operation whose library call raises before the transaction is
\* pending ends there as failed
EarlyFailure ==
  {<<"New", "Failed">>, <<"Built", "Failed">>, <<"Signed", "Failed">>}

\* C29 as stated: every operation goes Built, Signed, Submitted, Pending in
\* that order, each once, and from Pending to exactly one of Confirmed,
\* Failed, TimedOut; no stage is skipped or repeated and a terminal state
\* is never left.
C29_StagesInOrder ==
  [][TxStateNext # TxState => <<TxState, TxStateNext>> \in StageOrder]_vars

\* C29, amended: the stages an operation performs are an initial part of
\* Built, Signed, Submitted, Pending, each at most once; an operation whose
\* build, signature or broadcast raises ends as Failed without the later
\* stages; a pending one ends in exactly one of Confirmed, Failed, TimedOut,
\* and a terminal state is never left.
C29_StagesInOrderOrFailed ==
  [][TxStateNext # TxState
       => <<TxState, TxStateNext>> \in StageOrder \cup EarlyFailure]_vars

\* a transaction that was built and signed, and whose broadcast raised: the
\* operation returned a failure without a receipt wait
C29_Witness ==
  /\ pc = "tx_returned"
  /\ calls[Len(calls)] = Call("send", loc.kind, "send_error")
  /\ loc.tx_result = Some(TxFailure(<<"send_error">>))

\* int(amount * (10 ** decimals)): the base-unit value of a token amount
\* as the code computes it
BaseUnits(amount, decimals) ==
  Trunc(FloatMul(amount, Float(TenTo(decimals))))

\* C30: for an 18-decimal token the base-unit amount passed to sellToken is
\* the largest multiple of 10^9 not above the base-unit value of the sell
\* amount, and so never above the wallet's on-chain balance; for other
\* decimals the amount is passed without quantization.
C30_QuantizedSellAmount ==
  pc = "sell_built" =>
    LET amount_wei == loc.amount_wei[1]
        units == BaseUnits(loc.sell_amount[1], loc.decimals)
    IN /\ loc.decimals = 18 =>
            /\ BigDivMod(amount_wei, Quantum).r = <<>>
            /\ Cmp(amount_wei, units) <= 0
            /\ Cmp(units, BigAdd(amount_wei, Quantum)) < 0
            /\ Cmp(amount_wei, loc.balance_wei) <= 0
       /\ loc.decimals # 18 => amount_wei = units

\* C31: within one sell_token_complete run the base-unit amount approved to
\* the platform contract is at least the base-unit amount passed to
\* sellToken, and a sell is built only after an approval was granted.
C31_SellWithinAllowance ==
  pc = "sell_built" =>
    /\ loc.approve_wei # None
    /\ Cmp(loc.amount_wei[1], loc.approve_wei[1]) <= 0

\* an 18-decimal sell whose quantized amount is strictly below the allowance
C31_Witness ==
  /\ pc = "sell_built"
  /\ loc.decimals = 18
  /\ loc.approve_wei # None
  /\ Cmp(loc.amount_wei[1], loc.approve_wei[1]) < 0

\* the answer a request met is a success: its body was read and its code
\* field rendered as a string is "0"
CodeIsZeroString(resp) == resp.transport = "ok" /\ PyStr(resp.code) = "0"

C38_UploadKeepsContentType ==
  loc.op = "upload_image" => loc.content_type = loc.content_type_before

\* the requests make_request has sent so far
RequestsSent == {k \in DOMAIN calls : calls[k].op = "http"}

\* C33: make_request with max_retries = n >= 1 sends at most n requests; a
\* successful attempt is the last request and its response is returned; the
\* backoff sleep happens only after a failed attempt that was not the n-th
\* and is followed by the next request; the failure of the n-th attempt is
\* raised, and the call never ends without a response or an exception.
C33_BoundedRetry ==
  loc.max_retries >= 1 =>
    /\ Cardinality(RequestsSent) <= loc.max_retries
    /\ \A k \in RequestsSent :
         calls[k].out = "ok" => k = Len(calls) /\ pc = "responded"
    /\ pc = "responded" => calls[Len(calls)].out = "ok"
    /\ \A k \in DOMAIN calls :
         calls[k].op = "sleep" =>
           /\ k > 1
           /\ calls[k - 1].op = "http"
           /\ calls[k - 1].out # "ok"
           /\ Cardinality({j \in RequestsSent : j < k}) < loc.max_retries
           /\ IF k < Len(calls) THEN calls[k + 1].op = "http"
              ELSE pc = "request"
    /\ \A k \in RequestsSent :
         k > 1 => calls[k - 1].op = "sleep"
    /\ /\ Cardinality(RequestsSent) = loc.max_retries
       /\ calls[Len(calls)].op = "http"
       /\ calls[Len(calls)].out # "ok"
       => pc = "raised"
    /\ pc = "raised" =>
         calls[Len(calls)].op = "http" /\ calls[Len(calls)].out # "ok"
    /\ pc # "exhausted"

\* three attempts failed, two sleeps between them, and the third failure was
\* raised
C33_Witness ==
  /\ loc.max_retries = 3
  /\ pc = "raised"
  /\ Len(calls) = 5
  /\ calls[2].op = "sleep"
  /\ calls[4].op = "sleep"
  /\ calls[5].out = "timeout"

\* positions of the batch log holding an entry of the given kind
EventsOf(op) == {k \in DOMAIN calls : calls[k].op = op}

\* C34: wallets are processed one at a time and in order: wallet j + 1 is
\* started directly after wallet j's result was appended and, when the
\* configured delay is positive, the sleep that follows it; every result is
\* appended directly after its wallet was processed; a sleep happens only
\* after the result of a wallet that is not the last, so n - 1 times for n
\* wallets, and never when the delay is 0 (or negative).
C34_OneWalletAtATime ==
  LET delay == loc.delay_between_wallets
  IN /\ \A k \in EventsOf("process_wallet") :
          LET j == calls[k].wallet_num
          IN /\ j = Cardinality({m \in EventsOf("process_wallet") : m <= k})
             /\ j > 1 =>
                  IF delay > 0
                  THEN /\ calls[k - 1] = Event("sleep", j - 1)
                       /\ calls[k - 2] = Event("append", j - 1)
                  ELSE calls[k - 1] = Event("append", j - 1)
     /\ \A k \in EventsOf("append") :
          /\ k > 1
          /\ calls[k - 1] = Event("process_wallet", calls[k].wallet_num)
          /\ Len(results) >= calls[k].wallet_num
     /\ \A k \in EventsOf("sleep") :
          /\ delay > 0
          /\ calls[k].wallet_num < Len(wallets)
          /\ calls[k - 1] = Event("append", calls[k].wallet_num)
     /\ pc = "done" /\ wallets # <<>> =>
          /\ Cardinality(EventsOf("process_wallet")) = Len(wallets)
          /\ Cardinality(EventsOf("sleep")) =
               IF delay > 0 THEN Len(wallets) - 1 ELSE 0

\* three wallets run with a delay of 5: two sleeps, none after the third
C34_Witness ==
  /\ pc = "done"
  /\ Len(wallets) = 3
  /\ loc.delay_between_wallets = 5
  /\ Cardinality(EventsOf("sleep")) = 2
  /\ calls[Len(calls)] = Event("append", 3)

\* the selections made since the usage record was last emptied: the pool is
\* emptied before selection number N + 1, 2N + 1, ... of a pool of N images
SinceReset(selections, size) ==
  IF selections = <<>> THEN <<>>
  ELSE SubSeq(selections,
              Len(selections) - ((Len(selections) - 1) % size),
              Len(selections))

\* selections k and m were made with no reset in between
SameRound(k, m, size) == (k - 1) \div size = (m - 1) \div size

\* the image pool in a state: every selection is an image of the pool,
\* selections with no reset between them are pairwise distinct, and
\* used_images holds exactly the selections since the last reset
PoolState ==
  LET selections == loc.selections
      size == Cardinality(available_images)
  IN /\ used_images \subseteq available_images
     /\ \A k \in DOMAIN selections : selections[k] \in available_images
     /\ \A k, m \in DOMAIN selections :
          k < m /\ SameRound(k, m, size) => selections[k] # selections[m]
     /\ used_images =
          {SinceReset(selections, size)[k] :
             k \in DOMAIN SinceReset(selections, size)}

\* a step changes the pool only as the selection of process_wallet does:
\* the loaded images stay, and the usage record changes by one selection
PoolStep ==
  /\ available_images' = available_images
  /\ used_images' # used_images =>
       /\ pc = "wallet"
       /\ pc' = "returned"
       /\ Len(loc'.selections) = Len(loc.selections) + 1

\* C37: _get_random_image returns an image of the loaded pool that was not
\* returned since the last reset, the usage record is emptied only when all
\* images of the pool were used, so the N selections after each reset (the
\* first N of a fresh pool among them) are pairwise distinct; used_images
\* is a subset of available_images; and the pool is changed only by the
\* selection made in process_wallet, once per wallet at most.
C37_ImageRotation == []PoolState /\ [][PoolStep]_vars

\* three wallets on a pool of two images: two distinct selections, the
\* reset, and a third selection
C37_Witness ==
  /\ Cardinality(available_images) = 2
  /\ Len(loc.selections) = 3
  /\ loc.selections[1] # loc.selections[2]
  /\ used_images = {loc.selections[3]}

\* positions of run_batch between two wallets or after the last one: the
\* result of every processed wallet has been appended
WalletBoundary == pc \in {"wallet", "report", "done"}

\* C35: at every wallet boundary of run_batch success_count + failed_count
\* equals the number of results recorded, success_count equals the number
\* of results with success = true, and every result has success = true
\* exactly when its error is None.
C35_CountersMatchResults ==
  WalletBoundary =>
    /\ success_count + failed_count = Len(results)
    /\ success_count =
         Cardinality({k \in DOMAIN results : results[k].success})
    /\ \A k \in DOMAIN results :
         results[k].success <=> results[k].error = None

\* a finished batch of two wallets, one completed and one failed
C35_Witness ==
  /\ pc = "done"
  /\ Len(results) = 2
  /\ results[1].success
  /\ ~results[2].success
  /\ success_count = 1
  /\ failed_count = 1

\* the place of a step in the order of the workflow
StepPlace(s) ==
  CASE s = "balance_check" -> 1
    [] s = "token_created" -> 2
    [] s = "token_bought" -> 3
    [] s = "token_sold" -> 4
    [] OTHER -> 0

\* C36: in every result produced by process_wallet steps_completed is a
\* duplicate-free subsequence of balance_check, token_created, token_bought,
\* token_sold in that order; token_bought and token_sold appear only with
\* token_created; buy_tx is set exactly when token_bought is present and
\* sell_tx exactly when token_sold is present; success implies token_created
\* and a token address.
C36_ResultWellFormed ==
  pc = "returned" =>
    /\ \A k \in DOMAIN result.steps_completed :
         /\ result.steps_completed[k] \in
              {"balance_check", "token_created", "token_bought", "token_sold"}
         /\ k > 1 => StepPlace(result.steps_completed[k - 1])
                       < StepPlace(result.steps_completed[k])
    /\ HasStep(result, "token_bought") \/ HasStep(result, "token_sold")
         => HasStep(result, "token_created")
    /\ result.buy_tx # None <=> HasStep(result, "token_bought")
    /\ result.sell_tx # None <=> HasStep(result, "token_sold")
    /\ result.success =>
         HasStep(result, "token_created") /\ result.token_address # None

\* a wallet that created, bought and sold
C36_Witness ==
  /\ pc = "returned"
  /\ result.success
  /\ result.steps_completed =
       <<"balance_check", "token_created", "token_bought", "token_sold">>
  /\ result.buy_tx # None
  /\ result.sell_tx # None

\* the stage named name ran
StageRan(name) == \E k \in DOMAIN loc.ran : loc.ran[k].name = name

\* the stage named name ran and was recorded as passed
StagePassed(name) ==
  \E k \in DOMAIN loc.test_results :
    loc.test_results[k] = [name |-> name, success |-> TRUE]

\* C39: in the staged test driver the upload and creation-request stages run
\* only after a passed login, the full deployment only after chain
\* connection, login and creation request all passed, the purchase stage
\* only after a passed deployment that yielded a token address, the sell
\* stage only after a passed purchase; and the summary lists exactly the
\* stages that ran.
C39_StagesGated ==
  /\ StageRan("upload") \/ StageRan("creation") => StagePassed("login")
  /\ StageRan("deployment") =>
       StagePassed("chain") /\ StagePassed("login") /\ StagePassed("creation")
  /\ StageRan("purchase") =>
       StagePassed("deployment") /\ loc.token_address # None
  /\ StageRan("sell") => StagePassed("purchase")
  /\ loc.summary # None =>
       /\ Len(loc.summary[1]) = Len(loc.ran)
       /\ \A k \in DOMAIN loc.summary[1] :
            loc.summary[1][k].name = loc.ran[k].name

\* a run in which the deployment passed without a token address: the
\* purchase and sell stages did not run and are not in the summary
C39_Witness ==
  /\ pc = "done"
  /\ StagePassed("deployment")
  /\ loc.token_address = None
  /\ ~StageRan("purchase")
  /\ ~StageRan("sell")
  /\ Len(loc.summary[1]) = 6

====
